---- MODULE Spec2Model ----
(***************************************************************************)
(* A model of the chess position core of raklaptudirm/mess                 *)
(* (src/pkg/chess/chess): the Board with its Position stack, MakeMove and  *)
(* UndoMove, the legal move generator, the check detection and the         *)
(* incremental Zobrist hash.                                               *)
(*                                                                         *)
(* A BitBoard (uint64_t) is modelled as the set of the squares whose bit   *)
(* is set; a Hash (uint64_t under xor) as the set of the Zobrist keys      *)
(* xor-ed into it, so that two hashes that are equal here are equal in the *)
(* program whatever the values of the keys.                                *)
(***************************************************************************)
EXTENDS Integers, Sequences, FiniteSets, TLC

\* The deepest Position stack the specification Spec explores.
MaxPly == 2

\* The deepest perft the claims on Perft are checked to.
PerftDepth == 2

-----------------------------------------------------------------------------
(* color.hpp, piece.hpp *)

White == 0
Black == 1
ColorN == 2

\* Color::operator! : internal ^ 1
OtherColor(color) == 1 - color

Pawn == 0
Knight == 1
Bishop == 2
Rook == 3
Queen == 4
King == 5
PieceN == 6

\* ColoredPiece::None
NoPiece == 12

\* ColoredPiece(Piece, Color), operator +(Piece, Color)
ColoredPiece(piece, color) == color * PieceN + piece
\* ColoredPiece::Piece (Piece::None is PieceN)
PieceOf(cp) == IF cp = NoPiece THEN PieceN ELSE cp % PieceN
\* ColoredPiece::Color
ColorOf(cp) == cp \div PieceN

-----------------------------------------------------------------------------
(* square.hpp, direction.hpp *)

FileN == 8
SquareN == 64
\* Square::None
SquareNone == 64
Squares == 0 .. (SquareN - 1)

FileOf(sq) == IF sq = SquareNone THEN FileN ELSE sq % FileN
RankOf(sq) == sq \div FileN
SquareAt(file, rank) == rank * 8 + file
SquareDiagonal(sq) == 7 + RankOf(sq) - FileOf(sq)
SquareAntiDiagonal(sq) == RankOf(sq) + FileOf(sq)

North == 8
South == -8
East == 1
West == -1

\* Directions::Up(Color)
Up(stm) == IF stm = White THEN North ELSE South

\* Square::operator >>(Direction): the sum, stored in a uint8_t.
SquareShift(sq, direction) == (sq + direction) % 256

-----------------------------------------------------------------------------
(* bitboard.hpp *)

Empty == {}
Full == Squares

\* BitBoard::LSB: std::countr_zero, 64 (Square::None) for the empty BitBoard.
LSB(bb) == IF bb = {} THEN SquareNone ELSE CHOOSE s \in bb : \A t \in bb : s <= t

PopCount(bb) == Cardinality(bb)
Singular(bb) == Cardinality(bb) = 1
IsDisjoint(a, b) == a \cap b = {}
Flip(bb, sq) == IF sq \in bb THEN bb \ {sq} ELSE bb \cup {sq}

\* BitBoard::operator >>(Direction): a shift of the 64-bit word, masked
\* against spills over the A and H files.
Shift(bb, direction) ==
    IF direction \in {North, North + North, South, South + South}
    THEN {s + direction : s \in bb} \cap Squares
    ELSE IF direction \in {West, South + West, North + West}
    THEN {s + direction : s \in {x \in bb : x % 8 # 0}} \cap Squares
    ELSE IF direction \in {East, North + East, South + East}
    THEN {s + direction : s \in {x \in bb : x % 8 # 7}} \cap Squares
    ELSE bb

\* The iteration of a BitBoard by a range-for: its squares, least first.
SquareSeq == [i \in 1 .. SquareN |-> i - 1]
Iterate(bb) == SelectSeq(SquareSeq, LAMBDA s : s \in bb)

\* BitBoard::Hyperbola: o - 2r and its mirror image, within the mask: from
\* the square, the squares of the mask in each direction up to and
\* including the first blocker.
Hyperbola(square, blockers, mask) ==
    LET o == blockers \cap mask
        above == {b \in o : b > square}
        below == {b \in o : b < square}
        hi == IF above = {} THEN SquareN ELSE LSB(above)
        lo == IF below = {} THEN -1 ELSE CHOOSE s \in below : \A t \in below : t <= s
    IN {m \in mask : m # square /\ lo <= m /\ m <= hi}

\* BitBoards::File, Rank, Diagonal, AntiDiagonal: the literal masks.
FileMask(file) == {s \in Squares : s % 8 = file}
RankMask(rank) == {s \in Squares : s \div 8 = rank}
DiagonalMask(d) == {s \in Squares : 7 + (s \div 8) - (s % 8) = d}
AntiDiagonalMask(a) == {s \in Squares : (s \div 8) + (s % 8) = a}

FileTable == [f \in 0 .. 7 |-> FileMask(f)]
RankTable == [r \in 0 .. 7 |-> RankMask(r)]
DiagonalTable == [d \in 0 .. 14 |-> DiagonalMask(d)]
AntiDiagonalTable == [a \in 0 .. 14 |-> AntiDiagonalMask(a)]

\* The compile-time table of BitBoards::Between.
BetweenEntry(sq1, sq2) ==
    LET mask == IF SquareDiagonal(sq1) = SquareDiagonal(sq2)
                THEN DiagonalTable[SquareDiagonal(sq1)]
                ELSE IF SquareAntiDiagonal(sq1) = SquareAntiDiagonal(sq2)
                THEN AntiDiagonalTable[SquareAntiDiagonal(sq1)]
                ELSE IF FileOf(sq1) = FileOf(sq2) THEN FileTable[FileOf(sq1)]
                ELSE IF RankOf(sq1) = RankOf(sq2) THEN RankTable[RankOf(sq1)]
                ELSE Empty
        blockers == {sq1, sq2}
    IN IF mask = Empty \/ sq1 = sq2 THEN Empty
       ELSE (Hyperbola(sq1, blockers, mask) \cap Hyperbola(sq2, blockers, mask))
                \ blockers
BetweenTable == [sq1 \in Squares |-> [sq2 \in Squares |-> BetweenEntry(sq1, sq2)]]

Between(sq1, sq2) == BetweenTable[sq1][sq2]
Between2(sq1, sq2) == Between(sq1, sq2) \cup {sq2}

-----------------------------------------------------------------------------
(* moves.hpp: the move tables *)

\* The squares at the given (file, rank) offsets from a square, on the board.
Leaps(sq, offsets) ==
    {SquareAt(FileOf(sq) + o[1], RankOf(sq) + o[2]) :
        o \in {x \in offsets : /\ FileOf(sq) + x[1] \in 0 .. 7
                               /\ RankOf(sq) + x[2] \in 0 .. 7}}

PawnTable ==
    [color \in {White, Black} |-> [sq \in Squares |->
        IF color = White THEN Leaps(sq, {<<1, 1>>, <<-1, 1>>})
        ELSE Leaps(sq, {<<1, -1>>, <<-1, -1>>})]]
KnightTable ==
    [sq \in Squares |-> Leaps(sq, {<<1, 2>>, <<2, 1>>, <<-1, 2>>, <<-2, 1>>,
                                   <<1, -2>>, <<2, -1>>, <<-1, -2>>, <<-2, -1>>})]
KingTable ==
    [sq \in Squares |-> Leaps(sq, {<<1, 0>>, <<1, 1>>, <<0, 1>>, <<-1, 1>>,
                                   <<-1, 0>>, <<-1, -1>>, <<0, -1>>, <<1, -1>>})]

bishopSlow(square, blockers) ==
    Hyperbola(square, blockers, DiagonalTable[SquareDiagonal(square)])
        \cup Hyperbola(square, blockers, AntiDiagonalTable[SquareAntiDiagonal(square)])
rookSlow(square, blockers) ==
    Hyperbola(square, blockers, FileTable[FileOf(square)])
        \cup Hyperbola(square, blockers, RankTable[RankOf(square)])

\* MoveTable::Pawn, Knight, King: the lookups.  MoveTable::Bishop and Rook
\* look the sliding table up, which the initialiser filled from bishopSlow
\* and rookSlow for every subset of the relevant blockers.
MoveTablePawn(color, square) == PawnTable[color][square]
MoveTableKnight(square) == KnightTable[square]
MoveTableKing(square) == KingTable[square]
MoveTableBishop(square, blockers) == bishopSlow(square, blockers)
MoveTableRook(square, blockers) == rookSlow(square, blockers)

-----------------------------------------------------------------------------
(* castling.hpp *)

\* Castling::Side
SideH == 0
SideA == 1

\* Castling::Dimension(Color, Side): color * Side::N + side
Dimension(color, side) == color * 2 + side
Dimensions == 0 .. 3

\* Castling::Rights is modelled as the set of its Dimensions.
CastlingNone == {}
CastlingWhite == {Dimension(White, SideH), Dimension(White, SideA)}
CastlingBlack == {Dimension(Black, SideH), Dimension(Black, SideA)}

\* Castling::Ends: the end files of the King and the Rook for each Side.
KingFileH == 6
RookFileH == 5
KingFileA == 2
RookFileA == 3

\* Castling::EndSquares: the end squares of the King and the Rook.
EndSquares(dimension) ==
    LET rank == IF dimension \div 2 = White THEN 0 ELSE 7
    IN IF dimension % 2 = SideH
       THEN <<SquareAt(KingFileH, rank), SquareAt(RookFileH, rank)>>
       ELSE <<SquareAt(KingFileA, rank), SquareAt(RookFileA, rank)>>

\* Castling::Info::Info without the masks of the squares of the kings.
CastlingInfoRookMasks(whiteKing, whiteRookHFile, whiteRookAFile, blackKing, blackRookHFile, blackRookAFile, isChess960) ==
    LET rooks == <<SquareAt(whiteRookHFile, 0), SquareAt(whiteRookAFile, 0),
                   SquareAt(blackRookHFile, 7), SquareAt(blackRookAFile, 7)>>
        kings == <<whiteKing, whiteKing, blackKing, blackKing>>
        BLOCKER_MASK(king, rook, kingEnd, rookEnd) ==
            (Between2(king, kingEnd) \cup Between2(rook, rookEnd)) \ {king, rook}
        masks0 == [s \in Squares |-> CastlingNone]
        masks1 == [masks0 EXCEPT ![rooks[1]] = {Dimension(White, SideH)}]
        masks2 == [masks1 EXCEPT ![rooks[2]] = {Dimension(White, SideA)}]
        masks3 == [masks2 EXCEPT ![rooks[3]] = {Dimension(Black, SideH)}]
        masks4 == [masks3 EXCEPT ![rooks[4]] = {Dimension(Black, SideA)}]
    IN [chess960 |-> isChess960,
        rooks |-> [d \in Dimensions |-> rooks[d + 1]],
        blockerMask |-> [d \in Dimensions |->
            BLOCKER_MASK(kings[d + 1], rooks[d + 1], EndSquares(d)[1], EndSquares(d)[2])],
        attacksMask |-> [d \in Dimensions |-> Between2(kings[d + 1], EndSquares(d)[1])],
        masks |-> masks4]

\* Castling::Info::Info
CastlingInfo(whiteKing, whiteRookHFile, whiteRookAFile, blackKing, blackRookHFile, blackRookAFile, isChess960) ==
    LET rooks == <<SquareAt(whiteRookHFile, 0), SquareAt(whiteRookAFile, 0),
                   SquareAt(blackRookHFile, 7), SquareAt(blackRookAFile, 7)>>
        kings == <<whiteKing, whiteKing, blackKing, blackKing>>
        BLOCKER_MASK(king, rook, kingEnd, rookEnd) ==
            (Between2(king, kingEnd) \cup Between2(rook, rookEnd)) \ {king, rook}
        masks0 == [s \in Squares |-> CastlingNone]
        masks1 == [masks0 EXCEPT ![rooks[1]] = {Dimension(White, SideH)}]
        masks2 == [masks1 EXCEPT ![rooks[2]] = {Dimension(White, SideA)}]
        masks3 == [masks2 EXCEPT ![rooks[3]] = {Dimension(Black, SideH)}]
        masks4 == [masks3 EXCEPT ![rooks[4]] = {Dimension(Black, SideA)}]
        masks5 == [masks4 EXCEPT ![whiteKing] = CastlingWhite]
        masks6 == [masks5 EXCEPT ![blackKing] = CastlingBlack]
    IN [chess960 |-> isChess960,
        rooks |-> [d \in Dimensions |-> rooks[d + 1]],
        blockerMask |-> [d \in Dimensions |->
            BLOCKER_MASK(kings[d + 1], rooks[d + 1], EndSquares(d)[1], EndSquares(d)[2])],
        attacksMask |-> [d \in Dimensions |-> Between2(kings[d + 1], EndSquares(d)[1])],
        masks |-> masks6]

\* File(std::string), after the conversion of an upper case letter of a
\* Shredder FEN to lower case.
FileOfChar ==
    ("a" :> 0) @@ ("b" :> 1) @@ ("c" :> 2) @@ ("d" :> 3) @@
    ("e" :> 4) @@ ("f" :> 5) @@ ("g" :> 6) @@ ("h" :> 7) @@
    ("A" :> 0) @@ ("B" :> 1) @@ ("C" :> 2) @@ ("D" :> 3) @@
    ("E" :> 4) @@ ("F" :> 5) @@ ("G" :> 6) @@ ("H" :> 7)

\* The loop of Castling::Info::Parse over the characters of the string: the
\* rights and the four rook files (whiteH, whiteA, blackH, blackA) after
\* the characters from the i-th on.
RECURSIVE ParseRights(_, _, _, _, _, _, _)
ParseRights(str, i, chess960, WhiteKing, BlackKing, rights, files) ==
    IF i > Len(str) THEN [rights |-> rights, files |-> files]
    ELSE LET right == str[i]
             file == FileOfChar[right]
         IN IF chess960
            THEN IF right \in {"a", "b", "c", "d", "e", "f", "g", "h"}
                 THEN IF file > FileOf(BlackKing)
                      THEN ParseRights(str, i + 1, chess960, WhiteKing, BlackKing,
                               rights \cup {Dimension(Black, SideH)},
                               [files EXCEPT ![3] = file])
                      ELSE ParseRights(str, i + 1, chess960, WhiteKing, BlackKing,
                               rights \cup {Dimension(Black, SideA)},
                               [files EXCEPT ![4] = file])
                 ELSE IF file > FileOf(WhiteKing)
                      THEN ParseRights(str, i + 1, chess960, WhiteKing, BlackKing,
                               rights \cup {Dimension(White, SideH)},
                               [files EXCEPT ![1] = file])
                      ELSE ParseRights(str, i + 1, chess960, WhiteKing, BlackKing,
                               rights \cup {Dimension(White, SideA)},
                               [files EXCEPT ![2] = file])
            ELSE ParseRights(str, i + 1, chess960, WhiteKing, BlackKing,
                     rights \cup (CASE right = "K" -> {Dimension(White, SideH)}
                                    [] right = "Q" -> {Dimension(White, SideA)}
                                    [] right = "k" -> {Dimension(Black, SideH)}
                                    [] right = "q" -> {Dimension(Black, SideA)}),
                     files)

\* Castling::Info::Parse: the pair of the Info and the Rights.
CastlingParse(str, WhiteKing, BlackKing) ==
    IF str = <<"-">>
    THEN [info |-> CastlingInfo(4, 7, 0, 60, 7, 0, FALSE), rights |-> CastlingNone]
    ELSE LET chess960 == str[1] \notin {"K", "Q", "k", "q"}
             parsed == ParseRights(str, 1, chess960, WhiteKing, BlackKing,
                                   CastlingNone, <<7, 0, 7, 0>>)
         IN [info |-> CastlingInfo(WhiteKing, parsed.files[1], parsed.files[2],
                                   BlackKing, parsed.files[3], parsed.files[4],
                                   chess960),
             rights |-> parsed.rights]

-----------------------------------------------------------------------------
(* zobrist.hpp *)

\* Hash::operator + and operator -: both are the xor.
HashXor(a, b) == (a \ b) \cup (b \ a)

\* The Zobrist keys, each named by a number: psqt[piece][square], ep[file],
\* whiteH, whiteA, blackH, blackA and SideToMove.  castling[rights] is the
\* xor of the keys of the Dimensions in rights.
KeysNone == {}
KeysSideToMove == {780}
PieceOnSquare(piece, square) == {piece * 64 + square}
EnPassantTarget(target) == {768 + FileOf(target)}
CastlingRights(rights) == {776 + d : d \in rights}

-----------------------------------------------------------------------------
(* position.hpp *)

\* The assertions of Position::Insert.
InsertAsserts(position, square, piece) ==
    /\ square # SquareNone
    /\ piece # NoPiece
    /\ position.Mailbox[square] = NoPiece

\* Insert without the flip of the color BitBoard when the piece is a queen.
InsertQueenSkippingColor(position, square, piece) ==
    [position EXCEPT
        !.Mailbox[square] = piece,
        !.PieceBBs[PieceOf(piece)] = Flip(@, square),
        !.ColorBBs[ColorOf(piece)] = IF PieceOf(piece) = Queen THEN @ ELSE Flip(@, square),
        !.Hash = HashXor(@, PieceOnSquare(piece, square))]

\* Position::Insert
Insert(position, square, piece) ==
    [position EXCEPT
        !.Mailbox[square] = piece,
        !.PieceBBs[PieceOf(piece)] = Flip(@, square),
        !.ColorBBs[ColorOf(piece)] = Flip(@, square),
        !.Hash = HashXor(@, PieceOnSquare(piece, square))]

\* The assertions of Position::Remove.
RemoveAsserts(position, square) ==
    /\ square # SquareNone
    /\ position.Mailbox[square] # NoPiece

\* Remove without the update of the hash.
RemoveKeepingHash(position, square) ==
    LET piece == position.Mailbox[square]
    IN [position EXCEPT
            !.Mailbox[square] = NoPiece,
            !.PieceBBs[PieceOf(piece)] = Flip(@, square),
            !.ColorBBs[ColorOf(piece)] = Flip(@, square)]

\* Position::Remove
Remove(position, square) ==
    LET piece == position.Mailbox[square]
    IN [position EXCEPT
            !.Mailbox[square] = NoPiece,
            !.PieceBBs[PieceOf(piece)] = Flip(@, square),
            !.ColorBBs[ColorOf(piece)] = Flip(@, square),
            !.Hash = HashXor(@, PieceOnSquare(piece, square))]

\* Position::Attacked<BY>(Square, BitBoard)
Attacked(position, by, square, blockers) ==
    LET attackers == position.ColorBBs[by]
        attackingPawns == position.PieceBBs[Pawn] \cap attackers
        attackingKnights == position.PieceBBs[Knight] \cap attackers
        attackingQueens == position.PieceBBs[Queen]
        attackingBishops == (position.PieceBBs[Bishop] \cup attackingQueens) \cap attackers
        attackingRooks == (position.PieceBBs[Rook] \cup attackingQueens) \cap attackers
        attackingKing == position.PieceBBs[King] \cap attackers
    IN \/ ~IsDisjoint(attackingPawns, MoveTablePawn(OtherColor(by), square))
       \/ ~IsDisjoint(attackingKnights, MoveTableKnight(square))
       \/ ~IsDisjoint(attackingBishops, MoveTableBishop(square, blockers))
       \/ ~IsDisjoint(attackingRooks, MoveTableRook(square, blockers))
       \/ ~IsDisjoint(attackingKing, MoveTableKing(square))

\* Position::Attacked<BY>(BitBoard, BitBoard)
AttackedAny(position, by, targets, blockers) ==
    \E target \in targets : Attacked(position, by, target, blockers)

\* The assertions of Position::GenerateCheckers.
GenerateCheckersAsserts(position) ==
    /\ position.PieceBBs[King] # Empty
    /\ LSB(position.PieceBBs[King] \cap position.ColorBBs[position.SideToMove]) # SquareNone

\* Position::GenerateCheckers
GenerateCheckers(position) ==
    LET friends == position.ColorBBs[position.SideToMove]
        enemies == position.ColorBBs[OtherColor(position.SideToMove)]
        occupied == friends \cup enemies
        king == LSB(position.PieceBBs[King] \cap friends)
        p == position.PieceBBs[Pawn]
        n == position.PieceBBs[Knight]
        b == position.PieceBBs[Bishop]
        r == position.PieceBBs[Rook]
        q == position.PieceBBs[Queen]
        checkingP == p \cap MoveTablePawn(position.SideToMove, king)
        checkingN == n \cap MoveTableKnight(king)
        checkingD == (b \cup q) \cap MoveTableBishop(king, occupied)
        checkingL == (r \cup q) \cap MoveTableRook(king, occupied)
        checkers == (checkingP \cup checkingN \cup checkingD \cup checkingL) \cap enemies
    IN [position EXCEPT !.Checkers = checkers, !.CheckNum = PopCount(checkers)]

\* Position::ZobristHash
ZobristHash(position) ==
    LET h1 == IF position.SideToMove # White THEN KeysSideToMove ELSE KeysNone
        h2 == IF position.EpTarget # SquareNone
              THEN HashXor(h1, EnPassantTarget(position.EpTarget)) ELSE h1
        h3 == HashXor(h2, CastlingRights(position.Rights))
        occupied == {sq \in Squares : position.Mailbox[sq] # NoPiece}
    IN HashXor(h3, UNION {PieceOnSquare(position.Mailbox[sq], sq) : sq \in occupied})

-----------------------------------------------------------------------------
(* fen.hpp *)

\* ColoredPiece(std::string): ColoredPiece::None for any other letter.
PieceOfChar(c) ==
    CASE c = "P" -> 0 [] c = "N" -> 1 [] c = "B" -> 2
      [] c = "R" -> 3 [] c = "Q" -> 4 [] c = "K" -> 5
      [] c = "p" -> 6 [] c = "n" -> 7 [] c = "b" -> 8
      [] c = "r" -> 9 [] c = "q" -> 10 [] c = "k" -> 11
      [] OTHER -> NoPiece

\* info - '1' for the digits '1' to '8'.
DigitOfChar ==
    ("1" :> 0) @@ ("2" :> 1) @@ ("3" :> 2) @@ ("4" :> 3) @@
    ("5" :> 4) @@ ("6" :> 5) @@ ("7" :> 6) @@ ("8" :> 7)

\* The loop of the FEN constructor over the characters of one rank of the
\* board field, from the i-th on: the Mailbox and the squares of the kings.
RECURSIVE ParseRank(_, _, _, _, _)
ParseRank(chars, i, file, rank, acc) ==
    IF i > Len(chars) THEN acc
    ELSE LET info == chars[i]
             isDigit == info \in DOMAIN DigitOfChar
             file1 == IF isDigit THEN file + DigitOfChar[info] ELSE file
             sq == (7 - rank) * 8 + file1
             mb == IF isDigit THEN acc.Mailbox
                   ELSE [acc.Mailbox EXCEPT ![sq] = PieceOfChar(info)]
         IN ParseRank(chars, i + 1, file1 + 1, rank,
                [Mailbox |-> mb,
                 whiteKing |-> IF info = "K" THEN sq ELSE acc.whiteKing,
                 blackKing |-> IF info = "k" THEN sq ELSE acc.blackKing])

\* The loop of the FEN constructor over the eight ranks of the board field.
RECURSIVE ParseRanks(_, _, _)
ParseRanks(ranks, rank, acc) ==
    IF rank >= 8 THEN acc
    ELSE ParseRanks(ranks, rank + 1, ParseRank(ranks[rank + 1], 1, 0, rank, acc))

\* Square(std::string): Square::None for "-".
SquareOfString(str) ==
    IF str = <<"-">> THEN SquareNone
    ELSE SquareAt(FileOfChar[str[1]], DigitOfChar[str[2]])

\* FEN::MoveToPlyCount, a uint16.
MoveToPlyCount(mc, stm) == (((mc * 2) % 65536) - (IF stm = White THEN 2 ELSE 1)) % 65536

\* FEN::FEN.  The six fields of the string are the fields of the record
\* fenString: board (the eight ranks, each a sequence of characters),
\* stm, castling and ep (sequences of characters), clock and moves
\* (the numbers std::stoi reads).  FRC is never assigned.
FEN(fenString) ==
    LET parsed == ParseRanks(fenString.board, 0,
                      [Mailbox |-> [s \in Squares |-> NoPiece],
                       whiteKing |-> SquareNone, blackKing |-> SquareNone])
        SideToMove == IF fenString.stm = <<"w">> THEN White ELSE Black
        info == CastlingParse(fenString.castling, parsed.whiteKing, parsed.blackKing)
    IN [Mailbox |-> parsed.Mailbox,
        SideToMove |-> SideToMove,
        EPTarget |-> SquareOfString(fenString.ep),
        PlysCount |-> MoveToPlyCount(fenString.moves, SideToMove),
        DrawClock |-> fenString.clock % 256,
        CastlingInfo |-> info.info,
        CastlingRights |-> info.rights]

\* The loop of Position(const FEN&) that populates the board.
RECURSIVE InsertAll(_, _, _)
InsertAll(position, mailbox, sq) ==
    IF sq >= SquareN THEN position
    ELSE IF mailbox[sq] # NoPiece
    THEN InsertAll(Insert(position, sq, mailbox[sq]), mailbox, sq + 1)
    ELSE InsertAll(position, mailbox, sq + 1)

\* Position::Position(const FEN&)
PositionOfFEN(fen) ==
    LET h1 == IF fen.SideToMove # White THEN KeysSideToMove ELSE KeysNone
        h2 == IF fen.EPTarget # SquareNone
              THEN HashXor(h1, EnPassantTarget(fen.EPTarget)) ELSE h1
        h3 == IF fen.CastlingRights # CastlingNone
              THEN HashXor(h2, CastlingRights(fen.CastlingRights)) ELSE h2
        zero == [Mailbox |-> [s \in Squares |-> NoPiece],
                 PieceBBs |-> [piece \in 0 .. (PieceN - 1) |-> Empty],
                 ColorBBs |-> [color \in 0 .. (ColorN - 1) |-> Empty],
                 Hash |-> h3,
                 Checkers |-> Empty,
                 Rights |-> fen.CastlingRights,
                 SideToMove |-> fen.SideToMove,
                 EpTarget |-> fen.EPTarget,
                 DrawClock |-> fen.DrawClock,
                 CheckNum |-> 0]
    IN GenerateCheckers(InsertAll(zero, fen.Mailbox, 0))

-----------------------------------------------------------------------------
(* move.hpp, movelist.hpp *)

\* MoveFlag
Normal == 0
NPromotion == 1
BPromotion == 2
RPromotion == 3
QPromotion == 4
EnPassant == 5
DoublePush == 6
CastleHSide == 7
CastleASide == 8

\* MoveFlag(Castling::Side)
FlagFrom(side) == IF side = SideH THEN CastleHSide ELSE CastleASide

\* Move::Move: the flag, the target and the source packed into a uint16_t.
Move(source, target, flag) == flag * 4096 + target * 64 + source
Source(move) == move % 64
Target(move) == (move \div 64) % 64
Flag(move) == (move \div 4096) % 16

\* Move::MaxInGame: the number of slots of Board::history.
MaxInGame == 512

\* A MoveList is modelled as the sequence of its moves, in the order of the
\* calls of Emplace.  Concat is the list after the lists of a loop's bodies.
RECURSIVE Concat(_)
Concat(lists) == IF lists = <<>> THEN <<>> ELSE Head(lists) \o Concat(Tail(lists))

\* The lists a range-for over a BitBoard builds, one per square, in order.
ForEach(bb, Body(_)) == LET it == Iterate(bb) IN Concat([i \in 1 .. Len(it) |-> Body(it[i])])

-----------------------------------------------------------------------------
(* movegen.hpp: a Generator g is the record of the fields its constructor  *)
(* sets, together with its template arguments STM, QUIET and NOISY.        *)

\* Generator::serialize(Square, BitBoard)
serialize(g, source, targets) ==
    ForEach(targets \cap g.checkmask \cap g.territory,
            LAMBDA target : <<Move(source, target, Normal)>>)

\* Generator::serialize<OFFSET, FLAG>(BitBoard)
serializeOffset(g, OFFSET, FLAG, targets) ==
    ForEach(targets \cap g.checkmask \cap g.territory,
            LAMBDA target : <<Move(SquareShift(target, -OFFSET), target, FLAG)>>)

\* serializePromotions without the promotions to a rook.
serializePromotionsNoRook(g, OFFSET, CAPTURE, targets) ==
    ForEach((targets \cap g.checkmask) \ g.friends,
            LAMBDA target :
                LET source == SquareShift(target, -OFFSET)
                IN (IF g.NOISY THEN <<Move(source, target, QPromotion)>> ELSE <<>>)
                   \o (IF (g.QUIET /\ ~CAPTURE) \/ (g.NOISY /\ CAPTURE)
                       THEN <<Move(source, target, NPromotion),
                              Move(source, target, BPromotion)>>
                       ELSE <<>>))

\* Generator::serializePromotions<OFFSET, CAPTURE>(BitBoard)
serializePromotions(g, OFFSET, CAPTURE, targets) ==
    ForEach((targets \cap g.checkmask) \ g.friends,
            LAMBDA target :
                LET source == SquareShift(target, -OFFSET)
                IN (IF g.NOISY THEN <<Move(source, target, QPromotion)>> ELSE <<>>)
                   \o (IF (g.QUIET /\ ~CAPTURE) \/ (g.NOISY /\ CAPTURE)
                       THEN <<Move(source, target, NPromotion),
                              Move(source, target, BPromotion),
                              Move(source, target, RPromotion)>>
                       ELSE <<>>))

\* Generator::generateCheckMask
generateCheckMask(position, king) ==
    CASE position.CheckNum = 0 -> Full
      [] position.CheckNum = 2 -> Empty
      [] OTHER ->
            LET checkerSq == LSB(position.Checkers)
                checkerPc == PieceOf(position.Mailbox[checkerSq])
            IN IF checkerPc = Pawn \/ checkerPc = Knight
               THEN position.Checkers
               ELSE Between2(king, checkerSq)

\* Generator::generatePinMask
generatePinMask(friends, king, pinning) ==
    UNION {Between2(king, piece) :
            piece \in {x \in pinning : Singular(friends \cap Between2(king, x))}}

\* Generator::Generator, with generatePinMasks
Generator(STM, QUIET, NOISY, p, c) ==
    LET friends == p.ColorBBs[STM]
        enemies == p.ColorBBs[OtherColor(STM)]
        occupied == friends \cup enemies
        territory == (IF QUIET THEN Full \ occupied ELSE Empty)
                        \cup (IF NOISY THEN enemies ELSE Empty)
        kingBB == p.PieceBBs[King] \cap friends
        king == LSB(kingBB)
        b == enemies \cap p.PieceBBs[Bishop]
        r == enemies \cap p.PieceBBs[Rook]
        q == enemies \cap p.PieceBBs[Queen]
    IN [STM |-> STM, QUIET |-> QUIET, NOISY |-> NOISY,
        position |-> p, castlingInfo |-> c,
        friends |-> friends, enemies |-> enemies, occupied |-> occupied,
        territory |-> territory,
        blockers |-> (occupied \ kingBB) \cup (kingBB \ occupied),
        king |-> king,
        pinmaskL |-> generatePinMask(friends, king,
                        (r \cup q) \cap MoveTableRook(king, enemies)),
        pinmaskD |-> generatePinMask(friends, king,
                        (b \cup q) \cap MoveTableBishop(king, enemies)),
        checkmask |-> generateCheckMask(p, king)]

\* The en passant part of pawnMoves, which with two capturing pawns
\* generates the capture by the first of them only.
enPassantMovesFirstPawn(g, attackers) ==
    LET UP == Up(g.STM)
        target == g.position.EpTarget
        targetBB == {target}
        passanters == MoveTablePawn(OtherColor(g.STM), target) \cap attackers
        captured == SquareShift(target, -UP)
        pinners == (g.position.PieceBBs[Rook] \cup g.position.PieceBBs[Queen]) \cap g.enemies
        vanishers == passanters \cup {captured}
        seen == MoveTableRook(g.king, (g.occupied \ vanishers) \cup (vanishers \ g.occupied))
    IN IF g.position.EpTarget = SquareNone \/ passanters = {} THEN <<>>
       ELSE IF PopCount(passanters) = 1
                /\ (\/ IsDisjoint(targetBB \cup Shift(targetBB, -UP), g.checkmask)
                    \/ (RankOf(g.king) = RankOf(captured) /\ ~IsDisjoint(seen, pinners)))
       THEN <<>>
       ELSE IF LSB(passanters) \notin g.pinmaskD \/ ~IsDisjoint(g.pinmaskD, targetBB)
       THEN <<Move(LSB(passanters), target, EnPassant)>>
       ELSE <<>>

\* The en passant part of pawnMoves without the test for a rook or queen
\* that sees the king along the rank once both pawns have left it.
enPassantMovesNoRankTest(g, attackers) ==
    LET UP == Up(g.STM)
        target == g.position.EpTarget
        targetBB == {target}
        passanters == MoveTablePawn(OtherColor(g.STM), target) \cap attackers
    IN IF g.position.EpTarget = SquareNone THEN <<>>
       ELSE CASE PopCount(passanters) = 1 ->
                    IF IsDisjoint(targetBB \cup Shift(targetBB, -UP), g.checkmask)
                    THEN <<>>
                    ELSE IF IsDisjoint(g.pinmaskD, passanters)
                            \/ ~IsDisjoint(g.pinmaskD, targetBB)
                    THEN <<Move(LSB(passanters), target, EnPassant)>>
                    ELSE <<>>
              [] PopCount(passanters) = 2 ->
                    ForEach(passanters, LAMBDA passanter :
                        IF passanter \notin g.pinmaskD \/ ~IsDisjoint(g.pinmaskD, targetBB)
                        THEN <<Move(passanter, target, EnPassant)>>
                        ELSE <<>>)
              [] OTHER -> <<>>

\* Generator::pawnMoves, the en passant part.
enPassantMoves(g, attackers) ==
    LET UP == Up(g.STM)
        target == g.position.EpTarget
        targetBB == {target}
        passanters == MoveTablePawn(OtherColor(g.STM), target) \cap attackers
        captured == SquareShift(target, -UP)
        pinners == (g.position.PieceBBs[Rook] \cup g.position.PieceBBs[Queen]) \cap g.enemies
        vanishers == passanters \cup {captured}
        seen == MoveTableRook(g.king, (g.occupied \ vanishers) \cup (vanishers \ g.occupied))
    IN IF g.position.EpTarget = SquareNone THEN <<>>
       ELSE CASE PopCount(passanters) = 1 ->
                    IF IsDisjoint(targetBB \cup Shift(targetBB, -UP), g.checkmask)
                    THEN <<>>
                    ELSE IF RankOf(g.king) = RankOf(captured) /\ ~IsDisjoint(seen, pinners)
                    THEN <<>>
                    ELSE IF IsDisjoint(g.pinmaskD, passanters)
                            \/ ~IsDisjoint(g.pinmaskD, targetBB)
                    THEN <<Move(LSB(passanters), target, EnPassant)>>
                    ELSE <<>>
              [] PopCount(passanters) = 2 ->
                    ForEach(passanters, LAMBDA passanter :
                        IF passanter \notin g.pinmaskD \/ ~IsDisjoint(g.pinmaskD, targetBB)
                        THEN <<Move(passanter, target, EnPassant)>>
                        ELSE <<>>)
              [] OTHER -> <<>>

\* Generator::pawnMoves
pawnMoves(g) ==
    LET UP == Up(g.STM)
        UE == UP + East
        UW == UP + West
        DPRank == RankTable[IF g.STM = White THEN 2 ELSE 5]
        PRRank == RankTable[IF g.STM = White THEN 7 ELSE 0]
        pawns == g.position.PieceBBs[Pawn] \cap g.friends
        \* captures
        attackers == pawns \ g.pinmaskL
        pinnedAttackers == attackers \cap g.pinmaskD
        unpinnedAttackers == attackers \ pinnedAttackers
        attacksE == (Shift(pinnedAttackers, UE) \cap g.pinmaskD)
                        \cup Shift(unpinnedAttackers, UE)
        attacksW == (Shift(pinnedAttackers, UW) \cap g.pinmaskD)
                        \cup Shift(unpinnedAttackers, UW)
        \* pushes
        pushers == pawns \ g.pinmaskD
        pinnedPushers == pushers \cap g.pinmaskL
        unpinnedPushers == pushers \ pinnedPushers
        pinnedSinglePush == Shift(pinnedPushers, UP) \ g.occupied
        unpinnedSinglePush == Shift(unpinnedPushers, UP) \ g.occupied
        singlePushes == (pinnedSinglePush \cap g.pinmaskL) \cup unpinnedSinglePush
        doublePushes == Shift(singlePushes \cap DPRank, UP) \ g.occupied
    IN (IF g.NOISY
        THEN serializeOffset(g, UE, Normal, (attacksE \ PRRank) \cap g.enemies)
             \o serializeOffset(g, UW, Normal, (attacksW \ PRRank) \cap g.enemies)
             \o serializePromotions(g, UE, TRUE, attacksE \cap PRRank \cap g.enemies)
             \o serializePromotions(g, UW, TRUE, attacksW \cap PRRank \cap g.enemies)
             \o enPassantMoves(g, attackers)
        ELSE <<>>)
       \o (IF g.QUIET
           THEN serializeOffset(g, UP, Normal, singlePushes \ PRRank)
                \o serializeOffset(g, UP + UP, DoublePush, doublePushes)
                \o serializePromotions(g, UP, FALSE, singlePushes \cap PRRank)
           ELSE <<>>)

\* Generator::knightMoves
knightMoves(g) ==
    LET knights == (g.position.PieceBBs[Knight] \cap g.friends)
                        \ (g.pinmaskL \cup g.pinmaskD)
    IN ForEach(knights, LAMBDA knight : serialize(g, knight, MoveTableKnight(knight)))

\* Generator::bishopMoves
bishopMoves(g) ==
    LET bishops == ((g.position.PieceBBs[Bishop] \cup g.position.PieceBBs[Queen])
                        \cap g.friends) \ g.pinmaskL
        pinned == bishops \cap g.pinmaskD
        unpinned == bishops \ pinned
    IN ForEach(pinned, LAMBDA bishop :
            serialize(g, bishop, MoveTableBishop(bishop, g.occupied) \cap g.pinmaskD))
       \o ForEach(unpinned, LAMBDA bishop :
            serialize(g, bishop, MoveTableBishop(bishop, g.occupied)))

\* Generator::rookMoves
rookMoves(g) ==
    LET rooks == ((g.position.PieceBBs[Rook] \cup g.position.PieceBBs[Queen])
                        \cap g.friends) \ g.pinmaskD
        pinned == rooks \cap g.pinmaskL
        unpinned == rooks \ pinned
    IN ForEach(pinned, LAMBDA rook :
            serialize(g, rook, MoveTableRook(rook, g.occupied) \cap g.pinmaskL))
       \o ForEach(unpinned, LAMBDA rook :
            serialize(g, rook, MoveTableRook(rook, g.occupied)))

\* Generator::kingMoves
kingMoves(g) ==
    ForEach(MoveTableKing(g.king) \cap g.territory, LAMBDA target :
        IF ~Attacked(g.position, OtherColor(g.STM), target, g.blockers)
        THEN <<Move(g.king, target, Normal)>>
        ELSE <<>>)

\* castlingMove without the test of the attacked squares.
castlingMoveThroughAttack(g, SIDE) ==
    LET dimension == Dimension(g.STM, SIDE)
    IN IF /\ g.castlingInfo.rooks[dimension] \notin g.pinmaskL
          /\ dimension \in g.position.Rights
          /\ IsDisjoint(g.occupied, g.castlingInfo.blockerMask[dimension])
       THEN <<Move(g.king, g.castlingInfo.rooks[dimension], FlagFrom(SIDE))>>
       ELSE <<>>

\* Generator::castlingMove<SIDE>
castlingMove(g, SIDE) ==
    LET dimension == Dimension(g.STM, SIDE)
    IN IF /\ g.castlingInfo.rooks[dimension] \notin g.pinmaskL
          /\ dimension \in g.position.Rights
          /\ IsDisjoint(g.occupied, g.castlingInfo.blockerMask[dimension])
          /\ ~AttackedAny(g.position, OtherColor(g.STM),
                          g.castlingInfo.attacksMask[dimension], g.blockers)
       THEN <<Move(g.king, g.castlingInfo.rooks[dimension], FlagFrom(SIDE))>>
       ELSE <<>>

\* Generator::castlingMoves
castlingMoves(g) ==
    IF ~g.QUIET THEN <<>> ELSE castlingMove(g, SideH) \o castlingMove(g, SideA)

\* GenerateMoves without the switch on the number of checks.
GeneratorGenerateMovesAnyCheckNum(g) ==
    castlingMoves(g)
    \o rookMoves(g) \o bishopMoves(g) \o knightMoves(g) \o pawnMoves(g)
    \o kingMoves(g)

\* Generator::GenerateMoves: the cases of the switch fall through.
GeneratorGenerateMoves(g) ==
    (IF g.position.CheckNum = 0 THEN castlingMoves(g) ELSE <<>>)
    \o (IF g.position.CheckNum \in {0, 1}
        THEN rookMoves(g) \o bishopMoves(g) \o knightMoves(g) \o pawnMoves(g)
        ELSE <<>>)
    \o kingMoves(g)

\* Moves::Generate<QUIET, NOISY>
Generate(QUIET, NOISY, p, castlingInfo) ==
    GeneratorGenerateMoves(Generator(p.SideToMove, QUIET, NOISY, p, castlingInfo))

-----------------------------------------------------------------------------
(* board.hpp *)

(***************************************************************************)
(* The Board.  history is the Position stack: history[i + 1] models the    *)
(* slot i of the array, for the slots 0 .. top that hold a Position of the *)
(* game; the slots above top are not modelled, as MakeMove overwrites a    *)
(* slot wholly before it reads it.  frc is initialised from FEN::FRC,      *)
(* which the FEN constructor never assigns: it holds either value.         *)
(*                                                                         *)
(* trip names the assertion that stopped the program, "none" while it      *)
(* runs.  lastOp, lastMove and pre record the last operation, its move and *)
(* the Position and top before the last MakeMove.                          *)
(***************************************************************************)
VARIABLES history, top, castlingInfo, initialPlys, frc, trip, lastOp, lastMove, pre

vars == <<history, top, castlingInfo, initialPlys, frc, trip, lastOp, lastMove, pre>>

\* The FEN strings the Boards of the model are constructed from.
\* 8/8/8/KPpP3r/8/8/8/7k w - c6 0 1
RankTwoPawnsFenString ==
    [board |-> <<<<"8">>, <<"8">>, <<"8">>, <<"K", "P", "p", "P", "3", "r">>,
                 <<"8">>, <<"8">>, <<"8">>, <<"7", "k">>>>,
     stm |-> <<"w">>, castling |-> <<"-">>, ep |-> <<"c", "6">>, clock |-> 0, moves |-> 1]

\* 8/8/8/K1pP3r/8/8/8/7k w - c6 0 1
RankOnePawnFenString ==
    [board |-> <<<<"8">>, <<"8">>, <<"8">>, <<"K", "1", "p", "P", "3", "r">>,
                 <<"8">>, <<"8">>, <<"8">>, <<"7", "k">>>>,
     stm |-> <<"w">>, castling |-> <<"-">>, ep |-> <<"c", "6">>, clock |-> 0, moves |-> 1]

\* The FEN strings the Boards of the specification Spec are constructed from.
FenStrings ==
    {
     \* the double push e7e5 uncovers the bishop's check and offers en passant twice: 3b4/4p3/8/3P1PK1/8/8/8/7k b - - 0 1
     [board |-> <<<<"3", "b", "4">>, <<"4", "p", "3">>, <<"8">>, <<"3", "P", "1", "P", "K", "1">>, <<"8">>, <<"8">>, <<"8">>, <<"7", "k">>>>,
      stm |-> <<"b">>, castling |-> <<"-">>, ep |-> <<"-">>, clock |-> 0, moves |-> 1],
     \* the same after e7e5: 3b4/8/8/3PpPK1/8/8/8/7k w - e6 0 2
     [board |-> <<<<"3", "b", "4">>, <<"8">>, <<"8">>, <<"3", "P", "p", "P", "K", "1">>, <<"8">>, <<"8">>, <<"8">>, <<"7", "k">>>>,
      stm |-> <<"w">>, castling |-> <<"-">>, ep |-> <<"e", "6">>, clock |-> 0, moves |-> 2],
     \* the same with a knight that can uncover a rook: 3b2r1/6n1/8/3PpPK1/8/8/8/7k w - e6 0 2
     [board |-> <<<<"3", "b", "2", "r", "1">>, <<"6", "n", "1">>, <<"8">>, <<"3", "P", "p", "P", "K", "1">>, <<"8">>, <<"8">>, <<"8">>, <<"7", "k">>>>,
      stm |-> <<"w">>, castling |-> <<"-">>, ep |-> <<"e", "6">>, clock |-> 0, moves |-> 2],
     \* the mirror image, Black to move: 7K/8/8/8/3pPpk1/8/8/3B4 b - e3 0 1
     [board |-> <<<<"7", "K">>, <<"8">>, <<"8">>, <<"8">>, <<"3", "p", "P", "p", "k", "1">>, <<"8">>, <<"8">>, <<"3", "B", "4">>>>,
      stm |-> <<"b">>, castling |-> <<"-">>, ep |-> <<"e", "3">>, clock |-> 0, moves |-> 1],
     \* en passant along the king's rank, two capturing pawns: 8/8/8/KPpP3r/8/8/8/7k w - c6 0 1
     \* a double push beside a pawn that may not capture it: 8/2p5/8/K2P3r/8/8/8/7k b - - 0 1
     [board |-> <<<<"8">>, <<"2", "p", "5">>, <<"8">>, <<"K", "2", "P", "3", "r">>, <<"8">>, <<"8">>, <<"8">>, <<"7", "k">>>>,
      stm |-> <<"b">>, castling |-> <<"-">>, ep |-> <<"-">>, clock |-> 0, moves |-> 1],
     RankTwoPawnsFenString,
     \* en passant along the king's rank, one capturing pawn: 8/8/8/K1pP3r/8/8/8/7k w - c6 0 1
     RankOnePawnFenString,
     \* the pawn that gives check can be captured en passant: 8/8/8/1k6/1pP5/8/8/4K3 b - c3 0 1
     [board |-> <<<<"8">>, <<"8">>, <<"8">>, <<"1", "k", "6">>, <<"1", "p", "P", "5">>, <<"8">>, <<"8">>, <<"4", "K", "3">>>>,
      stm |-> <<"b">>, castling |-> <<"-">>, ep |-> <<"c", "3">>, clock |-> 0, moves |-> 1],
     \* a rook captures the rook of a castling right: 4k2r/8/8/8/8/8/8/K6R w k - 0 1
     [board |-> <<<<"4", "k", "2", "r">>, <<"8">>, <<"8">>, <<"8">>, <<"8">>, <<"8">>, <<"8">>, <<"K", "6", "R">>>>,
      stm |-> <<"w">>, castling |-> <<"k">>, ep |-> <<"-">>, clock |-> 0, moves |-> 1],
     \* a double push of White beside a black pawn: 7k/8/8/8/1p6/8/P7/K7 w - - 0 1
     [board |-> <<<<"7", "k">>, <<"8">>, <<"8">>, <<"8">>, <<"1", "p", "6">>, <<"8">>, <<"P", "7">>, <<"K", "7">>>>,
      stm |-> <<"w">>, castling |-> <<"-">>, ep |-> <<"-">>, clock |-> 0, moves |-> 1],
     \* standard castling: 4k2r/7p/8/8/8/8/P7/R3K3 w Qk - 0 1
     [board |-> <<<<"4", "k", "2", "r">>, <<"7", "p">>, <<"8">>, <<"8">>, <<"8">>, <<"8">>, <<"P", "7">>, <<"R", "3", "K", "3">>>>,
      stm |-> <<"w">>, castling |-> <<"Q", "k">>, ep |-> <<"-">>, clock |-> 0, moves |-> 1],
     \* castling across an attacked square: 4k3/8/8/8/8/8/3r4/R3K2R w KQ - 0 1
     [board |-> <<<<"4", "k", "3">>, <<"8">>, <<"8">>, <<"8">>, <<"8">>, <<"8">>, <<"3", "r", "4">>, <<"R", "3", "K", "2", "R">>>>,
      stm |-> <<"w">>, castling |-> <<"K", "Q">>, ep |-> <<"-">>, clock |-> 0, moves |-> 1],
     \* Chess960: the castling rook shields the king's destination from a rook: 4k3/8/8/8/8/8/8/rR2K3 w B - 0 1
     [board |-> <<<<"4", "k", "3">>, <<"8">>, <<"8">>, <<"8">>, <<"8">>, <<"8">>, <<"8">>, <<"r", "R", "2", "K", "3">>>>,
      stm |-> <<"w">>, castling |-> <<"B">>, ep |-> <<"-">>, clock |-> 0, moves |-> 1],
     \* Chess960: the king and the rook swap squares: 4k3/8/8/8/8/8/8/5KR1 w G - 0 1
     [board |-> <<<<"4", "k", "3">>, <<"8">>, <<"8">>, <<"8">>, <<"8">>, <<"8">>, <<"8">>, <<"5", "K", "R", "1">>>>,
      stm |-> <<"w">>, castling |-> <<"G">>, ep |-> <<"-">>, clock |-> 0, moves |-> 1],
     \* Chess960: the king castles onto its own square: 4k3/8/8/8/8/8/8/6KR w H - 0 1
     [board |-> <<<<"4", "k", "3">>, <<"8">>, <<"8">>, <<"8">>, <<"8">>, <<"8">>, <<"8">>, <<"6", "K", "R">>>>,
      stm |-> <<"w">>, castling |-> <<"H">>, ep |-> <<"-">>, clock |-> 0, moves |-> 1],
     \* Chess960, Black: the king castles onto its own square: 1rk5/8/8/8/8/8/8/4K3 b b - 0 1
     [board |-> <<<<"1", "r", "k", "5">>, <<"8">>, <<"8">>, <<"8">>, <<"8">>, <<"8">>, <<"8">>, <<"4", "K", "3">>>>,
      stm |-> <<"b">>, castling |-> <<"b">>, ep |-> <<"-">>, clock |-> 0, moves |-> 1],
     \* promotions: 1n2k3/P7/8/8/8/8/8/4K3 w - - 0 1
     [board |-> <<<<"1", "n", "2", "k", "3">>, <<"P", "7">>, <<"8">>, <<"8">>, <<"8">>, <<"8">>, <<"8">>, <<"4", "K", "3">>>>,
      stm |-> <<"w">>, castling |-> <<"-">>, ep |-> <<"-">>, clock |-> 0, moves |-> 1],
     \* a double check by discovery: 4k3/8/8/8/4N3/8/8/K3R3 w - - 0 1
     [board |-> <<<<"4", "k", "3">>, <<"8">>, <<"8">>, <<"8">>, <<"4", "N", "3">>, <<"8">>, <<"8">>, <<"K", "3", "R", "3">>>>,
      stm |-> <<"w">>, castling |-> <<"-">>, ep |-> <<"-">>, clock |-> 0, moves |-> 1],
     \* pinned pieces: 4k3/8/8/8/1b6/8/3N4/r2RK3 w - - 0 1
     [board |-> <<<<"4", "k", "3">>, <<"8">>, <<"8">>, <<"8">>, <<"1", "b", "6">>, <<"8">>, <<"3", "N", "4">>, <<"r", "2", "R", "K", "3">>>>,
      stm |-> <<"w">>, castling |-> <<"-">>, ep |-> <<"-">>, clock |-> 0, moves |-> 1]
    }

\* The number of values of Board::top, a uint16_t.
TopN == 65536

\* Board::Position
Position == history[top + 1]

\* Board::push: the new top and whether the bounds check passes.
push(t) == [top |-> (t + 1) % TopN, ok |-> ((t + 1) % TopN) < MaxInGame]

\* pop without the decrement.
popKeepingTop(t) == t

\* Board::pop: the new top; the bounds check top >= 0 of a uint16_t passes.
pop(t) == (t - 1) % TopN

\* A step of MakeMove on st, the Position together with the assertion that
\* has failed: Position::Insert with its assertions.
InsertStep(st, square, piece) ==
    IF st.trip # "none" THEN st
    ELSE IF InsertAsserts(st.position, square, piece)
    THEN [st EXCEPT !.position = Insert(@, square, piece)]
    ELSE [st EXCEPT !.trip = "Insert"]

\* Position::Remove with its assertions.
RemoveStep(st, square) ==
    IF st.trip # "none" THEN st
    ELSE IF RemoveAsserts(st.position, square)
    THEN [st EXCEPT !.position = Remove(@, square)]
    ELSE [st EXCEPT !.trip = "Remove"]

\* doCastling with the end squares of the King and the Rook exchanged.
doCastlingExchanged(st, side) ==
    LET dim == Dimension(st.position.SideToMove, side)
        ends == EndSquares(dim)
    IN InsertStep(InsertStep(st, ends[2], ColoredPiece(King, st.position.SideToMove)),
                  ends[1], ColoredPiece(Rook, st.position.SideToMove))

\* Board::doCastling
doCastling(st, side) ==
    LET dim == Dimension(st.position.SideToMove, side)
        ends == EndSquares(dim)
    IN InsertStep(InsertStep(st, ends[1], ColoredPiece(King, st.position.SideToMove)),
                  ends[2], ColoredPiece(Rook, st.position.SideToMove))

\* The switch of Board::MakeMove that records the square of the pushed pawn
\* as the en passant target.
flagStepEpOnPawn(st, source, target, flag, sourcePiece, UP) ==
    LET stm == st.position.SideToMove
    IN CASE flag = Normal -> InsertStep(st, target, sourcePiece)
         [] flag = DoublePush ->
                LET s1 == InsertStep(st, target, sourcePiece)
                    newEPTarget == SquareShift(source, UP)
                    attackers == s1.position.PieceBBs[Pawn]
                                    \cap s1.position.ColorBBs[OtherColor(stm)]
                IN IF s1.trip = "none"
                      /\ ~IsDisjoint(MoveTablePawn(stm, newEPTarget), attackers)
                   THEN [s1 EXCEPT !.position.EpTarget = target,
                                   !.position.Hash = HashXor(@, EnPassantTarget(newEPTarget))]
                   ELSE s1
         [] flag = CastleHSide -> doCastling(st, SideH)
         [] flag = CastleASide -> doCastling(st, SideA)
         [] flag = EnPassant ->
                RemoveStep(InsertStep(st, target, sourcePiece), SquareShift(target, -UP))
         [] flag = QPromotion -> InsertStep(st, target, ColoredPiece(Queen, stm))
         [] flag = NPromotion -> InsertStep(st, target, ColoredPiece(Knight, stm))
         [] flag = BPromotion -> InsertStep(st, target, ColoredPiece(Bishop, stm))
         [] flag = RPromotion -> InsertStep(st, target, ColoredPiece(Rook, stm))
         [] OTHER -> IF st.trip # "none" THEN st ELSE [st EXCEPT !.trip = "flag"]

\* The switch of Board::MakeMove over the flag of the move.
flagStep(st, source, target, flag, sourcePiece, UP) ==
    LET stm == st.position.SideToMove
    IN CASE flag = Normal -> InsertStep(st, target, sourcePiece)
         [] flag = DoublePush ->
                LET s1 == InsertStep(st, target, sourcePiece)
                    newEPTarget == SquareShift(source, UP)
                    attackers == s1.position.PieceBBs[Pawn]
                                    \cap s1.position.ColorBBs[OtherColor(stm)]
                IN IF s1.trip = "none"
                      /\ ~IsDisjoint(MoveTablePawn(stm, newEPTarget), attackers)
                   THEN [s1 EXCEPT !.position.EpTarget = newEPTarget,
                                   !.position.Hash = HashXor(@, EnPassantTarget(newEPTarget))]
                   ELSE s1
         [] flag = CastleHSide -> doCastling(st, SideH)
         [] flag = CastleASide -> doCastling(st, SideA)
         [] flag = EnPassant ->
                RemoveStep(InsertStep(st, target, sourcePiece), SquareShift(target, -UP))
         [] flag = QPromotion -> InsertStep(st, target, ColoredPiece(Queen, stm))
         [] flag = NPromotion -> InsertStep(st, target, ColoredPiece(Knight, stm))
         [] flag = BPromotion -> InsertStep(st, target, ColoredPiece(Bishop, stm))
         [] flag = RPromotion -> InsertStep(st, target, ColoredPiece(Rook, stm))
         [] OTHER -> IF st.trip # "none" THEN st ELSE [st EXCEPT !.trip = "flag"]

\* The end of Board::MakeMove: the side to move, the checkers and the
\* assertion on the hash.
finishStep(st) ==
    IF st.trip # "none" THEN st
    ELSE LET p1 == [st.position EXCEPT !.SideToMove = OtherColor(@),
                                       !.Hash = HashXor(@, KeysSideToMove)]
         IN IF ~GenerateCheckersAsserts(p1)
            THEN [position |-> p1, trip |-> "GenerateCheckers"]
            ELSE LET p2 == GenerateCheckers(p1)
                 IN [position |-> p2,
                     trip |-> IF p2.Hash = ZobristHash(p2) THEN "none" ELSE "Hash"]

\* Board::MakeMove that strips only the rights of the mask of the target
\* square.
MakeMoveOnTargetMask(last, info, move) ==
    LET source == Source(move)
        target == Target(move)
        flag == Flag(move)
        sourcePiece == last.Mailbox[source]
        targetPiece == last.Mailbox[target]
        isCapture == targetPiece # NoPiece
        UP == Up(last.SideToMove)
        p1 == [last EXCEPT !.DrawClock = (@ + 1) % 256]
        p2 == IF p1.EpTarget # SquareNone
              THEN [p1 EXCEPT !.Hash = HashXor(@, EnPassantTarget(p1.EpTarget)),
                              !.EpTarget = SquareNone]
              ELSE p1
        change == info.masks[target]
        p3 == [p2 EXCEPT !.Hash = HashXor(@, CastlingRights(change \cap p2.Rights)),
                         !.Rights = @ \ change]
        s4 == RemoveStep([position |-> p3, trip |-> "none"], source)
        s5 == IF isCapture
              THEN LET s == RemoveStep(s4, target)
                   IN IF s.trip = "none" THEN [s EXCEPT !.position.DrawClock = 0] ELSE s
              ELSE IF PieceOf(sourcePiece) = Pawn /\ s4.trip = "none"
              THEN [s4 EXCEPT !.position.DrawClock = 0]
              ELSE s4
    IN finishStep(flagStep(s5, source, target, flag, sourcePiece, UP))

\* Board::MakeMove that does not clear the en passant target.
MakeMoveOnKeepingEp(last, info, move) ==
    LET source == Source(move)
        target == Target(move)
        flag == Flag(move)
        sourcePiece == last.Mailbox[source]
        targetPiece == last.Mailbox[target]
        isCapture == targetPiece # NoPiece
        UP == Up(last.SideToMove)
        p1 == [last EXCEPT !.DrawClock = (@ + 1) % 256]
        p2 == p1
        change == info.masks[source] \cup info.masks[target]
        p3 == [p2 EXCEPT !.Hash = HashXor(@, CastlingRights(change \cap p2.Rights)),
                         !.Rights = @ \ change]
        s4 == RemoveStep([position |-> p3, trip |-> "none"], source)
        s5 == IF isCapture
              THEN LET s == RemoveStep(s4, target)
                   IN IF s.trip = "none" THEN [s EXCEPT !.position.DrawClock = 0] ELSE s
              ELSE IF PieceOf(sourcePiece) = Pawn /\ s4.trip = "none"
              THEN [s4 EXCEPT !.position.DrawClock = 0]
              ELSE s4
    IN finishStep(flagStep(s5, source, target, flag, sourcePiece, UP))

\* Board::MakeMove on the copy of the last Position: the Position of the new
\* top and the assertion that failed, if one did.
MakeMoveOn(last, info, move) ==
    LET source == Source(move)
        target == Target(move)
        flag == Flag(move)
        sourcePiece == last.Mailbox[source]
        targetPiece == last.Mailbox[target]
        isCapture == targetPiece # NoPiece
        UP == Up(last.SideToMove)
        p1 == [last EXCEPT !.DrawClock = (@ + 1) % 256]
        p2 == IF p1.EpTarget # SquareNone
              THEN [p1 EXCEPT !.Hash = HashXor(@, EnPassantTarget(p1.EpTarget)),
                              !.EpTarget = SquareNone]
              ELSE p1
        change == info.masks[source] \cup info.masks[target]
        p3 == [p2 EXCEPT !.Hash = HashXor(@, CastlingRights(change \cap p2.Rights)),
                         !.Rights = @ \ change]
        s4 == RemoveStep([position |-> p3, trip |-> "none"], source)
        s5 == IF isCapture
              THEN LET s == RemoveStep(s4, target)
                   IN IF s.trip = "none" THEN [s EXCEPT !.position.DrawClock = 0] ELSE s
              ELSE IF PieceOf(sourcePiece) = Pawn /\ s4.trip = "none"
              THEN [s4 EXCEPT !.position.DrawClock = 0]
              ELSE s4
    IN finishStep(flagStep(s5, source, target, flag, sourcePiece, UP))

\* Board::GenerateMoves<QUIET, NOISY>
GenerateMoves(QUIET, NOISY) == Generate(QUIET, NOISY, Position, castlingInfo)

\* Board::perft<BULK_COUNT, false> on a Board, given by its position stack
\* h and its top t: the node count it returns, or the assertion of MakeMove
\* that stopped it, with the stack and the top it leaves, the calls of
\* MakeMove and of UndoMove it has made and the highest top it has reached.
\* The loop over the moves is perftLoop, from the move i on, with the nodes
\* counted so far in the record r.
RECURSIVE perft(_, _, _, _, _)
RECURSIVE perftLoop(_, _, _, _, _, _, _)
perftLoop(BULK_COUNT, h, info, depth, moves, i, r) ==
    IF i > Len(moves) THEN r
    ELSE LET pushed == push(r.top)
             made == MakeMoveOn(h[r.top + 1], info, moves[i])
             hMade == [k \in 1 .. (pushed.top + 1) |->
                            IF k = pushed.top + 1 THEN made.position ELSE h[k]]
             delta == perft(BULK_COUNT, hMade, info, pushed.top, depth - 1)
             peak == IF delta.peak > r.peak THEN delta.peak ELSE r.peak
         IN IF ~pushed.ok
            THEN [r EXCEPT !.trip = "push", !.top = pushed.top, !.makes = @ + 1]
            ELSE IF made.trip # "none"
            THEN [r EXCEPT !.trip = made.trip, !.top = pushed.top, !.history = hMade,
                           !.makes = @ + 1, !.peak = IF pushed.top > @ THEN pushed.top ELSE @]
            ELSE IF delta.trip # "none"
            THEN [r EXCEPT !.trip = delta.trip, !.top = delta.top, !.history = delta.history,
                           !.makes = @ + 1 + delta.makes, !.undos = @ + delta.undos,
                           !.peak = peak]
            ELSE perftLoop(BULK_COUNT, h, info, depth, moves, i + 1,
                           [r EXCEPT !.nodes = @ + delta.nodes,
                                     !.top = pop(delta.top),
                                     !.makes = @ + 1 + delta.makes,
                                     !.undos = @ + 1 + delta.undos,
                                     !.peak = peak])

perft(BULK_COUNT, h, info, t, depth) ==
    LET entry == [nodes |-> 0, trip |-> "none", history |-> h, top |-> t,
                  makes |-> 0, undos |-> 0, peak |-> t]
    IN IF depth <= 0 THEN [entry EXCEPT !.nodes = 1]
       ELSE LET moves == Generate(TRUE, TRUE, h[t + 1], info)
            IN IF BULK_COUNT /\ depth = 1
               THEN [entry EXCEPT !.nodes = Len(moves)]
               ELSE perftLoop(BULK_COUNT, h, info, depth, moves, 1, entry)

\* Board::Perft<BULK_COUNT, false>(depth): the node count, or the assertion
\* that stopped the program.
Perft(BULK_COUNT, depth) ==
    LET r == perft(BULK_COUNT, history, castlingInfo, top, depth)
    IN [nodes |-> r.nodes, trip |-> r.trip]

\* The Board runs: no assertion has stopped it and top is a slot of history.
Running == trip = "none" /\ top < Len(history)

\* Board::Board(const FEN&)
Board(fenString) ==
    LET fen == FEN(fenString)
    IN /\ history = <<PositionOfFEN(fen)>>
       /\ top = 0
       /\ castlingInfo = fen.CastlingInfo
       /\ initialPlys = fen.PlysCount
       /\ frc \in BOOLEAN

Init ==
    /\ \E fenString \in FenStrings : Board(fenString)
    /\ trip = "none"
    /\ lastOp = "load"
    /\ lastMove = 0
    /\ pre = [position |-> history[1], top |-> 0]

\* Board::MakeMove that makes the move on the last Position itself before
\* it copies it to the new top.
MakeMoveOfInPlace(move) ==
    LET pushed == push(top)
        made == MakeMoveOn(history[pushed.top], castlingInfo, move)
    IN /\ top' = pushed.top
       /\ IF pushed.ok
          THEN /\ history' = [i \in 1 .. (pushed.top + 1) |->
                                IF i >= pushed.top THEN made.position ELSE history[i]]
               /\ trip' = made.trip
          ELSE /\ history' = history
               /\ trip' = "push"
       /\ lastOp' = "make"
       /\ lastMove' = move
       /\ pre' = [position |-> Position, top |-> top]
       /\ UNCHANGED <<castlingInfo, initialPlys, frc>>

\* Board::MakeMove(move)
MakeMoveOf(move) ==
    LET pushed == push(top)
        \* the slot top - 1, after the push
        made == MakeMoveOn(history[pushed.top], castlingInfo, move)
    IN /\ top' = pushed.top
       /\ IF pushed.ok
          THEN /\ history' = [i \in 1 .. (pushed.top + 1) |->
                                IF i = pushed.top + 1 THEN made.position ELSE history[i]]
               /\ trip' = made.trip
          ELSE /\ history' = history
               /\ trip' = "push"
       /\ lastOp' = "make"
       /\ lastMove' = move
       /\ pre' = [position |-> Position, top |-> top]
       /\ UNCHANGED <<castlingInfo, initialPlys, frc>>

\* MakeMove of a move of GenerateMoves<true, true>, while the stack is no
\* deeper than MaxPly.
MakeMove ==
    /\ Running
    /\ top < MaxPly
    /\ \E i \in 1 .. Len(GenerateMoves(TRUE, TRUE)) :
            MakeMoveOf(GenerateMoves(TRUE, TRUE)[i])

\* Board::UndoMove
UndoMove ==
    /\ Running
    /\ top' = pop(top)
    /\ history' = IF top > 0 THEN SubSeq(history, 1, top) ELSE history
    /\ lastOp' = IF lastOp = "make" THEN "make-undo" ELSE "undo"
    /\ lastMove' = IF lastOp = "make" THEN lastMove ELSE 0
    /\ pre' = IF lastOp = "make" THEN pre ELSE [position |-> history[1], top |-> 0]
    /\ UNCHANGED <<castlingInfo, initialPlys, frc, trip>>

Next == MakeMove \/ UndoMove

Spec == Init /\ [][Next]_vars

\* A game of one line, of any length: the Board of two bare kings, and
\* MakeMove of the first move of GenerateMoves<true, true>.
DeepFenString ==
    [board |-> <<<<"4", "k", "3">>, <<"8">>, <<"8">>, <<"8">>,
                 <<"8">>, <<"8">>, <<"8">>, <<"4", "K", "3">>>>,
     stm |-> <<"w">>, castling |-> <<"-">>, ep |-> <<"-">>, clock |-> 0, moves |-> 1]

InitDeep ==
    /\ Board(DeepFenString)
    /\ trip = "none"
    /\ lastOp = "load"
    /\ lastMove = 0
    /\ pre = [position |-> history[1], top |-> 0]

MakeMoveDeep ==
    /\ Running
    /\ GenerateMoves(TRUE, TRUE) # <<>>
    /\ MakeMoveOf(GenerateMoves(TRUE, TRUE)[1])

NextDeep == MakeMoveDeep \/ UndoMove

SpecDeep == InitDeep /\ [][NextDeep]_vars

-----------------------------------------------------------------------------
(* The rules of chess, stated on the Mailbox alone, for the claims to      *)
(* measure the program against.                                            *)

Abs(x) == IF x < 0 THEN -x ELSE x
Sign(x) == IF x < 0 THEN -1 ELSE IF x > 0 THEN 1 ELSE 0

\* The squares strictly between two squares of a rank, file or diagonal are
\* empty.
RuleClear(mailbox, from, to) ==
    LET df == (to % 8) - (from % 8)
        dr == (to \div 8) - (from \div 8)
        n == IF Abs(df) > Abs(dr) THEN Abs(df) ELSE Abs(dr)
    IN \A k \in 1 .. (n - 1) :
            mailbox[from + k * (Sign(dr) * 8 + Sign(df))] = NoPiece

\* The piece on the square from attacks the square to.
RuleAttacks(mailbox, from, to) ==
    LET cp == mailbox[from]
        df == (to % 8) - (from % 8)
        dr == (to \div 8) - (from \div 8)
        diagonal == Abs(df) = Abs(dr) /\ df # 0
        straight == (df = 0) # (dr = 0)
    IN /\ cp # NoPiece
       /\ CASE cp % 6 = Pawn -> Abs(df) = 1 /\ dr = (IF cp \div 6 = White THEN 1 ELSE -1)
            [] cp % 6 = Knight -> {Abs(df), Abs(dr)} = {1, 2}
            [] cp % 6 = Bishop -> diagonal /\ RuleClear(mailbox, from, to)
            [] cp % 6 = Rook -> straight /\ RuleClear(mailbox, from, to)
            [] cp % 6 = Queen -> (diagonal \/ straight) /\ RuleClear(mailbox, from, to)
            [] cp % 6 = King -> Abs(df) <= 1 /\ Abs(dr) <= 1 /\ from # to

\* The squares of the pieces of a color that attack a square.
RuleAttackers(mailbox, color, to) ==
    {from \in Squares : /\ mailbox[from] # NoPiece
                        /\ mailbox[from] \div 6 = color
                        /\ RuleAttacks(mailbox, from, to)}

\* The squares of the kings of a color.
RuleKings(mailbox, color) == {sq \in Squares : mailbox[sq] = color * 6 + King}

\* A king of the color is attacked.
RuleInCheck(mailbox, color) ==
    \E k \in RuleKings(mailbox, color) : RuleAttackers(mailbox, 1 - color, k) # {}

\* The Mailbox after a move of the side stm, by the rules.
RuleMake(mailbox, stm, move) ==
    LET s == move % 64
        t == (move \div 64) % 64
        f == move \div 4096
        back == (s \div 8) * 8
    IN CASE f \in {CastleHSide, CastleASide} ->
                [sq \in Squares |->
                    IF sq = back + (IF f = CastleHSide THEN 6 ELSE 2) THEN stm * 6 + King
                    ELSE IF sq = back + (IF f = CastleHSide THEN 5 ELSE 3) THEN stm * 6 + Rook
                    ELSE IF sq \in {s, t} THEN NoPiece
                    ELSE mailbox[sq]]
         [] f = EnPassant ->
                [sq \in Squares |->
                    IF sq = t THEN mailbox[s]
                    ELSE IF sq = s \/ sq = back + (t % 8) THEN NoPiece
                    ELSE mailbox[sq]]
         [] f \in {NPromotion, BPromotion, RPromotion, QPromotion} ->
                [sq \in Squares |->
                    IF sq = t THEN stm * 6 + f
                    ELSE IF sq = s THEN NoPiece
                    ELSE mailbox[sq]]
         [] OTHER ->
                [sq \in Squares |->
                    IF sq = t THEN mailbox[s]
                    ELSE IF sq = s THEN NoPiece
                    ELSE mailbox[sq]]

\* The squares of a rank from one of its squares to another, both included.
RuleSpan(a, b) == {sq \in Squares : /\ sq \div 8 = a \div 8
                                    /\ (a <= sq /\ sq <= b) \/ (b <= sq /\ sq <= a)}

\* The moves of the piece on the square s that obey the rules of movement,
\* whether or not they leave the king attacked.
RulePieceMoves(position, info, s) ==
    LET mailbox == position.Mailbox
        stm == position.SideToMove
        up == IF stm = White THEN 8 ELSE -8
        enemy(t) == mailbox[t] # NoPiece /\ mailbox[t] \div 6 # stm
        friend(t) == mailbox[t] # NoPiece /\ mailbox[t] \div 6 = stm
        lastRank(t) == t \div 8 = (IF stm = White THEN 7 ELSE 0)
        flagsTo(t) == IF lastRank(t)
                      THEN {NPromotion, BPromotion, RPromotion, QPromotion}
                      ELSE {Normal}
        pushes == IF (s + up) \in Squares /\ mailbox[s + up] = NoPiece
                  THEN {Move(s, s + up, f) : f \in flagsTo(s + up)}
                       \cup (IF /\ s \div 8 = (IF stm = White THEN 1 ELSE 6)
                                /\ mailbox[s + up + up] = NoPiece
                             THEN {Move(s, s + up + up, DoublePush)} ELSE {})
                  ELSE {}
        captures == UNION {{Move(s, t, f) : f \in flagsTo(t)} :
                        t \in {x \in Squares : RuleAttacks(mailbox, s, x) /\ enemy(x)}}
        passant == {Move(s, t, EnPassant) :
                        t \in {x \in Squares : /\ x = position.EpTarget
                                               /\ RuleAttacks(mailbox, s, x)}}
        castle(side) ==
            LET dim == stm * 2 + side
                rook == info.rooks[dim]
                home == IF stm = White THEN 0 ELSE 56
                kingEnd == home + (IF side = SideH THEN 6 ELSE 2)
                rookEnd == home + (IF side = SideH THEN 5 ELSE 3)
            IN IF /\ dim \in position.Rights
                  /\ s \div 8 = home \div 8
                  /\ mailbox[rook] = stm * 6 + Rook
                  /\ \A sq \in (RuleSpan(s, kingEnd) \cup RuleSpan(rook, rookEnd)) \ {s, rook} :
                        mailbox[sq] = NoPiece
                  /\ \A sq \in RuleSpan(s, kingEnd) :
                        RuleAttackers(mailbox, 1 - stm, sq) = {}
               THEN {Move(s, rook, IF side = SideH THEN CastleHSide ELSE CastleASide)}
               ELSE {}
    IN CASE mailbox[s] % 6 = Pawn -> pushes \cup captures \cup passant
         [] mailbox[s] % 6 = King ->
                {Move(s, t, Normal) :
                    t \in {x \in Squares : RuleAttacks(mailbox, s, x) /\ ~friend(x)}}
                \cup castle(SideH) \cup castle(SideA)
         [] OTHER ->
                {Move(s, t, Normal) :
                    t \in {x \in Squares : RuleAttacks(mailbox, s, x) /\ ~friend(x)}}

\* The legal moves: those that obey the rules of movement and leave the king
\* of the side that moves unattacked.
RuleLegalMoves(position, info) ==
    LET stm == position.SideToMove
        own == {s \in Squares : /\ position.Mailbox[s] # NoPiece
                                /\ position.Mailbox[s] \div 6 = stm}
    IN {m \in UNION {RulePieceMoves(position, info, s) : s \in own} :
            ~RuleInCheck(RuleMake(position.Mailbox, stm, m), stm)}

-----------------------------------------------------------------------------
(* Claims *)

\* C1: after MakeMove of a generated move, the king of the side that has
\* just moved is not attacked by a piece of the side now to move.
C1_MoverNotInCheck ==
    (lastOp = "make" /\ Running) =>
        ~RuleInCheck(Position.Mailbox, OtherColor(Position.SideToMove))

\* C3: MakeMove immediately followed by UndoMove leaves the current Position
\* equal in every field to the Position before the MakeMove, and top equal
\* to its value before.
C3_MakeUndoRestores ==
    lastOp = "make-undo" => (top = pre.top /\ Running /\ Position = pre.position)

C3_Witness ==
    /\ lastOp = "make-undo" /\ top = 1 /\ Flag(lastMove) = EnPassant
    /\ Position = pre.position /\ Position.EpTarget = Target(lastMove)

\* C4: after the load and after every MakeMove the incremental Hash is the
\* ZobristHash of the Position, and the assertion on it never fails.
C4_HashIsZobrist ==
    /\ trip # "Hash"
    /\ Running => Position.Hash = ZobristHash(Position)

C4_Witness ==
    /\ Running /\ lastOp = "make"
    /\ Flag(lastMove) = CastleASide
    /\ pre.position.Rights # Position.Rights
    /\ pre.position.Hash # Position.Hash

\* C5: the Mailbox, the piece BitBoards and the color BitBoards agree.
C5_RepresentationsAgree ==
    top < Len(history) =>
        /\ \A sq \in Squares : \A cp \in 0 .. 11 :
                Position.Mailbox[sq] = cp <=>
                    (sq \in Position.PieceBBs[cp % 6] /\ sq \in Position.ColorBBs[cp \div 6])
        /\ Position.ColorBBs[White] \cap Position.ColorBBs[Black] = {}
        /\ \A a, b \in 0 .. 5 :
                a # b => Position.PieceBBs[a] \cap Position.PieceBBs[b] = {}
        /\ \A a \in 0 .. 5 : \A sq \in Position.PieceBBs[a] :
                (sq \in Position.ColorBBs[White]) # (sq \in Position.ColorBBs[Black])

C5_Witness ==
    /\ Running /\ lastOp = "make" /\ Flag(lastMove) = QPromotion
    /\ pre.position.Mailbox[Target(lastMove)] # NoPiece
    /\ Position.Mailbox[Target(lastMove)] = ColoredPiece(Queen, White)

\* C6: MakeMove of a generated move trips none of its assertions.
C6_NoAssertionTrips == trip \notin {"Insert", "Remove", "flag", "GenerateCheckers", "Hash"}

\* C8: Checkers is the set of the squares of the pieces of the side not to
\* move that attack the king of the side to move, CheckNum is its size, and
\* CheckNum is 0, 1 or 2.
C8_CheckersExact ==
    Running =>
        /\ \A k \in RuleKings(Position.Mailbox, Position.SideToMove) :
                Position.Checkers =
                    RuleAttackers(Position.Mailbox, OtherColor(Position.SideToMove), k)
        /\ RuleKings(Position.Mailbox, Position.SideToMove) # {}
        /\ Position.CheckNum = Cardinality(Position.Checkers)
        /\ Position.CheckNum \in {0, 1, 2}

\* C9: each color has exactly one king on the board.
C9_OneKingEach ==
    top < Len(history) =>
        \A color \in {White, Black} :
            Cardinality(Position.PieceBBs[King] \cap Position.ColorBBs[color]) = 1


\* C2: GenerateMoves<true, true> returns exactly the legal moves of the
\* current position, each of them once.
C2_GeneratesExactlyLegal ==
    Running =>
        LET moves == GenerateMoves(TRUE, TRUE)
        IN /\ {moves[i] : i \in 1 .. Len(moves)} = RuleLegalMoves(Position, castlingInfo)
           /\ Cardinality({moves[i] : i \in 1 .. Len(moves)}) = Len(moves)


\* C7: with at most MaxInGame MakeMove frames outstanding, the bounds check
\* of push never fails and top addresses a slot of history (top is beyond
\* the slots also after an UndoMove that no MakeMove matches, which is no
\* case of the claim: top is then TopN - 1).
C7_PushAccepted ==
    /\ trip # "push"
    /\ top # TopN - 1 => top < MaxInGame

\* C11: at every depth, the depths below 1 included, Perft<true, false>
\* returns the node count that Perft<false, false> returns.
C11_BulkCountSame ==
    Running =>
        \A depth \in -1 .. PerftDepth :
            /\ Perft(FALSE, depth).trip = "none"
            /\ Perft(TRUE, depth) = Perft(FALSE, depth)

\* The set of the moves of a move list.
MovesOf(moves) == {moves[i] : i \in 1 .. Len(moves)}

\* A noisy move: a capture of an enemy piece, en passant included, or a
\* promotion to a queen.
RuleNoisy(mailbox, stm, move) ==
    LET t == (move \div 64) % 64
        f == move \div 4096
    IN \/ f = EnPassant
       \/ f = QPromotion
       \/ (mailbox[t] # NoPiece /\ mailbox[t] \div 6 # stm)

\* C12: GenerateMoves<false, true> returns exactly the legal captures and
\* queen promotions, GenerateMoves<true, false> exactly the other legal
\* moves, and the two lists are disjoint and together are the list of
\* GenerateMoves<true, true>.
C12_QuietNoisySplit ==
    Running =>
        LET noisy == GenerateMoves(FALSE, TRUE)
            quiet == GenerateMoves(TRUE, FALSE)
            all == GenerateMoves(TRUE, TRUE)
            legal == RuleLegalMoves(Position, castlingInfo)
            isNoisy(m) == RuleNoisy(Position.Mailbox, Position.SideToMove, m)
        IN /\ MovesOf(noisy) = {m \in legal : isNoisy(m)}
           /\ MovesOf(quiet) = {m \in legal : ~isNoisy(m)}
           /\ MovesOf(noisy) \cap MovesOf(quiet) = {}
           /\ MovesOf(noisy) \cup MovesOf(quiet) = MovesOf(all)
           /\ Len(noisy) + Len(quiet) = Len(all)

\* The castling moves of a move list.
CastlesOf(moves) == {m \in MovesOf(moves) : Flag(m) \in {CastleHSide, CastleASide}}

\* The Mailbox without the pieces on the squares gone.
RuleWithout(mailbox, gone) == [sq \in Squares |-> IF sq \in gone THEN NoPiece ELSE mailbox[sq]]

\* C13: a castling move is generated only if no square from the king's
\* origin to its destination is attacked by the enemy once the king is off
\* the board, and none of them is attacked along the rank by an enemy rook
\* or queen once the castling rook is off the board too.
C13_CastlingNotThroughAttack ==
    Running =>
        \A m \in CastlesOf(GenerateMoves(TRUE, TRUE)) :
            LET stm == Position.SideToMove
                side == IF Flag(m) = CastleHSide THEN SideH ELSE SideA
                kingEnd == EndSquares(Dimension(stm, side))[1]
                noKing == RuleWithout(Position.Mailbox, {Source(m)})
                noRook == RuleWithout(Position.Mailbox, {Source(m), Target(m)})
            IN \A sq \in RuleSpan(Source(m), kingEnd) :
                    /\ RuleAttackers(noKing, OtherColor(stm), sq) = {}
                    /\ \A from \in RuleAttackers(noRook, OtherColor(stm), sq) :
                            ~(/\ noRook[from] % 6 \in {Rook, Queen}
                              /\ from \div 8 = sq \div 8)

\* A castling move is generated while the castling to the other side, its
\* right held and its squares empty, is withheld.
C13_Witness ==
    /\ Running
    /\ CastlesOf(GenerateMoves(TRUE, TRUE)) # {}
    /\ \E side \in {SideH, SideA} :
            LET dimension == Dimension(Position.SideToMove, side)
            IN /\ dimension \in Position.Rights
               /\ IsDisjoint(Position.ColorBBs[White] \cup Position.ColorBBs[Black],
                             castlingInfo.blockerMask[dimension])
               /\ \A m \in CastlesOf(GenerateMoves(TRUE, TRUE)) : Flag(m) # FlagFrom(side)

\* The en passant capture d5xc6.
Dxc6 == Move(SquareAt(3, 4), SquareAt(2, 5), EnPassant)

\* C14: in the position 8/8/8/KPpP3r/8/8/8/7k w - c6 0 1 the list of
\* GenerateMoves<true, true> does not contain the en passant capture d5xc6.
C14_NoDxc6 ==
    (Running /\ Position = PositionOfFEN(FEN(RankTwoPawnsFenString))) =>
        Dxc6 \notin MovesOf(GenerateMoves(TRUE, TRUE))

\* C14, amended: in that position d5xc6 is generated and is legal, the pawn
\* b5 staying between the king and the rook; it is in the position
\* 8/8/8/K1pP3r/8/8/8/7k w - c6 0 1, without the pawn b5, that d5xc6 is
\* not generated.
C14_DxcGeneratedUnlessExposed ==
    /\ (Running /\ Position = PositionOfFEN(FEN(RankTwoPawnsFenString))) =>
            /\ Dxc6 \in MovesOf(GenerateMoves(TRUE, TRUE))
            /\ Dxc6 \in RuleLegalMoves(Position, castlingInfo)
    /\ (Running /\ Position = PositionOfFEN(FEN(RankOnePawnFenString))) =>
            /\ Dxc6 \notin MovesOf(GenerateMoves(TRUE, TRUE))
            /\ Dxc6 \notin RuleLegalMoves(Position, castlingInfo)

C14_Witness ==
    /\ Running /\ lastOp = "make-undo" /\ lastMove = Dxc6
    /\ Position = PositionOfFEN(FEN(RankTwoPawnsFenString))

\* The keys of the en passant files.
KeysEnPassant == UNION {EnPassantTarget(SquareAt(file, 0)) : file \in 0 .. 7}

\* The legal en passant captures on the square target in the Position.
RuleLegalPassants(position, info, target) ==
    {m \in RuleLegalMoves([position EXCEPT !.EpTarget = target], info) : Flag(m) = EnPassant}

\* C15: after MakeMove of a DoublePush move, EpTarget is the square the pawn
\* skipped only if a pawn of the side now to move can legally capture en
\* passant there; otherwise EpTarget is None and the Hash holds no key of an
\* en passant file.
C15_EpTargetOnlyIfCapturable ==
    (Running /\ lastOp = "make" /\ Flag(lastMove) = DoublePush) =>
        LET skipped == (Source(lastMove) + Target(lastMove)) \div 2
        IN /\ Position.EpTarget \in {SquareNone, skipped}
           /\ Position.EpTarget = skipped =>
                    RuleLegalPassants(Position, castlingInfo, skipped) # {}
           /\ Position.EpTarget = SquareNone =>
                    /\ RuleLegalPassants(Position, castlingInfo, skipped) = {}
                    /\ Position.Hash \cap KeysEnPassant = {}

\* The legal moves of the pawns of the side to move onto the promotion rank.
RuleLegalPromotions(position, info) ==
    {m \in RuleLegalMoves(position, info) :
        /\ position.Mailbox[Source(m)] = ColoredPiece(Pawn, position.SideToMove)
        /\ RankOf(Target(m)) = (IF position.SideToMove = White THEN 7 ELSE 0)}

\* C16: for every legal push or capture of a pawn onto the promotion rank
\* GenerateMoves<true, true> has exactly four moves with its source and
\* target, one with each of the four promotion flags, and none with the
\* flag Normal.
C16_FourPromotions ==
    Running =>
        LET moves == GenerateMoves(TRUE, TRUE)
        IN \A m \in RuleLegalPromotions(Position, castlingInfo) :
            LET same == {i \in 1 .. Len(moves) : /\ Source(moves[i]) = Source(m)
                                                 /\ Target(moves[i]) = Target(m)}
            IN /\ Cardinality(same) = 4
               /\ {Flag(moves[i]) : i \in same}
                    = {NPromotion, BPromotion, RPromotion, QPromotion}

\* A pawn can promote both by a push and by a capture.
C16_Witness ==
    /\ Running
    /\ \E m, n \in RuleLegalPromotions(Position, castlingInfo) :
            /\ Position.Mailbox[Target(m)] = NoPiece
            /\ Position.Mailbox[Target(n)] # NoPiece
            /\ Move(Source(m), Target(m), RPromotion) \in MovesOf(GenerateMoves(TRUE, TRUE))
            /\ Move(Source(n), Target(n), NPromotion) \in MovesOf(GenerateMoves(TRUE, TRUE))

\* C17: MakeMove of a pawn move or of a capture of an enemy piece sets
\* DrawClock to 0, and MakeMove of any other move, castling included, sets
\* it to its value before plus 1.
C17_DrawClockCounts ==
    (Running /\ lastOp = "make") =>
        LET before == pre.position
            pawnMove == PieceOf(before.Mailbox[Source(lastMove)]) = Pawn
            capture == RuleNoisy(before.Mailbox, before.SideToMove, lastMove)
                            /\ Flag(lastMove) # QPromotion
        IN Position.DrawClock = IF pawnMove \/ capture THEN 0 ELSE before.DrawClock + 1

-----------------------------------------------------------------------------
(* The string conversions: square.hpp, piece.hpp, move.hpp, board.hpp.     *)
(* A std::string is modelled as the sequence of its characters.            *)

\* The character with the code 1.
CharOne == "\\x01"

\* File::ToString: `return {1, static_cast<char>(internal + 'a')}` is the
\* list-initialisation of a std::string from two characters, the character
\* with the code 1 and the letter of the file.
FileToString(file) ==
    <<CharOne, <<"a", "b", "c", "d", "e", "f", "g", "h">>[file + 1]>>

\* Rank::ToString: the same with the digit of the rank.
RankToString(rank) ==
    <<CharOne, <<"1", "2", "3", "4", "5", "6", "7", "8">>[rank + 1]>>

\* Square::ToString
SquareToString(sq) ==
    IF sq = SquareNone THEN <<"-">>
    ELSE FileToString(FileOf(sq)) \o RankToString(RankOf(sq))

\* Piece::ToString: the rune of the piece in "pnbrqk-".
PieceToString(piece) == <<(<<"p", "n", "b", "r", "q", "k", "-">>)[piece + 1]>>

\* MoveFlag::IsPromotion
IsPromotion(flag) == NPromotion <= flag /\ flag <= QPromotion

\* MoveFlag::PromotedPiece: the flag's number read as a Piece.
PromotedPiece(flag) == flag

\* Move::ToString
MoveToString(move) ==
    IF move = 0 THEN <<"0", "0", "0", "0">>
    ELSE SquareToString(Source(move)) \o SquareToString(Target(move))
            \o (IF IsPromotion(Flag(move))
                THEN PieceToString(PromotedPiece(Flag(move))) ELSE <<>>)

\* Board::ToString(Move); ToString alone is an operator of the TLC module.
BoardToString(move) ==
    IF (~frc) /\ Flag(move) = CastleASide
    THEN MoveToString(Move(Source(move),
             EndSquares(Dimension(Position.SideToMove, SideA))[1], CastleASide))
    ELSE IF (~frc) /\ Flag(move) = CastleHSide
    THEN MoveToString(Move(Source(move),
             EndSquares(Dimension(Position.SideToMove, SideH))[1], CastleHSide))
    ELSE MoveToString(move)

\* The name of a square in algebraic notation: the letter of its file and
\* the digit of its rank.
SquareName(sq) ==
    << <<"a", "b", "c", "d", "e", "f", "g", "h">>[FileOf(sq) + 1],
       <<"1", "2", "3", "4", "5", "6", "7", "8">>[RankOf(sq) + 1] >>

\* C18: a Board made from a FEN whose castling field is "-" or begins with
\* K, Q, k or q has frc = FALSE and ToString renders a generated castling
\* move as the king's square followed by the king's destination (g1, c1, g8
\* or c8); a Board made from a FEN whose castling field begins with a file
\* letter has frc = TRUE and renders it as the king's square followed by the
\* castling rook's square.
C18_FrcAndCastlingString ==
    Running =>
        /\ frc = castlingInfo.chess960
        /\ \A move \in CastlesOf(GenerateMoves(TRUE, TRUE)) :
              LET side == IF Flag(move) = CastleHSide THEN SideH ELSE SideA
                  dimension == Dimension(Position.SideToMove, side)
              IN BoardToString(move) =
                    SquareName(Source(move)) \o
                    SquareName(IF castlingInfo.chess960
                               THEN castlingInfo.rooks[dimension]
                               ELSE EndSquares(dimension)[1])

\* The generated moves of the side to move that do not move its king.
NonKingMoves ==
    {m \in MovesOf(GenerateMoves(TRUE, TRUE)) :
        PieceOf(Position.Mailbox[Source(m)]) # King}

\* C19: when the side to move is in single check, every generated move of
\* a piece other than the king has its target in the checkmask, except an
\* en-passant capture whose captured pawn is the checking piece; with one or
\* with two capturing pawns.
C19_SingleCheckTargetsInCheckmask ==
    (Running /\ Position.CheckNum = 1) =>
        LET STM == Position.SideToMove
            g == Generator(STM, TRUE, TRUE, Position, castlingInfo)
        IN \A m \in NonKingMoves :
              \/ Target(m) \in g.checkmask
              \/ /\ Flag(m) = EnPassant
                 /\ SquareShift(Target(m), -Up(STM)) \in Position.Checkers

\* The rooks and queens of a color that attack the square to along its rank.
RuleRankAttackers(mailbox, color, to) ==
    {from \in RuleAttackers(mailbox, color, to) :
        /\ from \div 8 = to \div 8
        /\ mailbox[from] % 6 \in {Rook, Queen}}

\* The en passant captures of the side to move that obey the rules of
\* movement, whether or not they leave the king attacked.
RulePassants(position, info) ==
    {m \in UNION {RulePieceMoves(position, info, s) : s \in Squares} :
        /\ Flag(m) = EnPassant
        /\ position.Mailbox[Source(m)] = ColoredPiece(Pawn, position.SideToMove)}

\* After the move no king of the side to move is attacked along its rank by
\* an enemy rook or queen.
RuleRankSafe(position, move) ==
    LET stm == position.SideToMove
        after == RuleMake(position.Mailbox, stm, move)
    IN \A k \in RuleKings(after, stm) : RuleRankAttackers(after, 1 - stm, k) = {}

\* C20: no generated en passant capture leaves the mover's king attacked
\* along its rank by an enemy rook or queen once the capturing and the
\* captured pawn have left the rank; with two capturing pawns no en passant
\* capture at all exposes the king in this way.
C20_NoRankExposure ==
    Running =>
        LET passants == RulePassants(Position, castlingInfo)
        IN /\ \A m \in MovesOf(GenerateMoves(TRUE, TRUE)) :
                Flag(m) = EnPassant => RuleRankSafe(Position, m)
           /\ Cardinality(passants) = 2 =>
                \A m \in passants : RuleRankSafe(Position, m)

\* C20 witness: a pawn could capture en passant by the rules of movement,
\* the capture would uncover an enemy rook or queen on the king's rank, and
\* it is not in the generated list, after the MakeMove of the double push.
C20_Witness ==
    /\ Running
    /\ lastOp = "make"
    /\ Flag(lastMove) = DoublePush
    /\ \E m \in RulePassants(Position, castlingInfo) :
            /\ ~RuleRankSafe(Position, m)
            /\ m \notin MovesOf(GenerateMoves(TRUE, TRUE))

\* C21: castling moves are generated only when CheckNum = 0, moves of the
\* pieces other than the king only when CheckNum <= 1, and when CheckNum = 2
\* every generated move is a Normal move of the king.
C21_DispatchByCheckNum ==
    Running =>
        LET STM == Position.SideToMove
            g == Generator(STM, TRUE, TRUE, Position, castlingInfo)
            moves == MovesOf(GenerateMoves(TRUE, TRUE))
        IN /\ CastlesOf(GenerateMoves(TRUE, TRUE)) # {} => Position.CheckNum = 0
           /\ (\E m \in moves :
                    \/ Flag(m) \notin {Normal, CastleHSide, CastleASide}
                    \/ Position.Mailbox[Source(m)] # ColoredPiece(King, STM))
                => Position.CheckNum <= 1
           /\ Position.CheckNum = 2 =>
                \A m \in moves : Flag(m) = Normal /\ Source(m) = g.king

\* C21 witness: the side to move is in check and, but for the check, could
\* castle: the rights, the empty squares and the unattacked path are there.
C21_Witness ==
    /\ Running
    /\ lastOp = "make"
    /\ Position.CheckNum = 1
    /\ castlingMoves(Generator(Position.SideToMove, TRUE, TRUE, Position, castlingInfo)) # <<>>
    /\ GenerateMoves(TRUE, TRUE) # <<>>

\* C22: a generated castling move is king square -> square of the castling
\* rook with the flag of the side; after MakeMove of it the mover's king is
\* on the G (H side) or C file (A side) and the castling rook on the F or D
\* file of the mover's back rank, the squares the king and the rook started
\* from are empty unless they are one of these two squares, and no other
\* square of the board has changed.
C22_CastlingPlacesKingAndRook ==
    /\ Running =>
          \A m \in CastlesOf(GenerateMoves(TRUE, TRUE)) :
              LET stm == Position.SideToMove
                  side == IF Flag(m) = CastleHSide THEN SideH ELSE SideA
              IN /\ Position.Mailbox[Source(m)] = ColoredPiece(King, stm)
                 /\ Target(m) = castlingInfo.rooks[Dimension(stm, side)]
                 /\ Position.Mailbox[Target(m)] = ColoredPiece(Rook, stm)
    /\ (Running /\ lastOp = "make" /\ Flag(lastMove) \in {CastleHSide, CastleASide}) =>
          LET before == pre.position.Mailbox
              after == Position.Mailbox
              stm == pre.position.SideToMove
              back == IF stm = White THEN 0 ELSE 7
              kingEnd == SquareAt(IF Flag(lastMove) = CastleHSide THEN 6 ELSE 2, back)
              rookEnd == SquareAt(IF Flag(lastMove) = CastleHSide THEN 5 ELSE 3, back)
          IN \A sq \in Squares :
                after[sq] = CASE sq = kingEnd -> ColoredPiece(King, stm)
                              [] sq = rookEnd -> ColoredPiece(Rook, stm)
                              [] sq \in {Source(lastMove), Target(lastMove)} -> NoPiece
                              [] OTHER -> before[sq]

\* C22 witness: a Chess960 castling move has been made in which the king or
\* the rook started from one of the two end squares.
C22_Witness ==
    /\ Running
    /\ lastOp = "make"
    /\ Flag(lastMove) \in {CastleHSide, CastleASide}
    /\ LET back == IF pre.position.SideToMove = White THEN 0 ELSE 7
           file == IF Flag(lastMove) = CastleHSide THEN {6, 5} ELSE {2, 3}
       IN {Source(lastMove), Target(lastMove)} \cap {SquareAt(f, back) : f \in file} # {}

\* The castling rights that a move from or to the square ends: the right of
\* the rook that started on it and both rights of the king that started on
\* it, the kings being where they were when the position was loaded.
RuleMask(sq) ==
    {d \in Dimensions : \/ sq = castlingInfo.rooks[d]
                        \/ sq \in RuleKings(history[1].Mailbox, d \div 2)}

\* C23: after MakeMove(m) the castling rights are the rights before without
\* those of the masks of the source and of the target of m; no right is
\* added.
C23_RightsStripped ==
    (Running /\ lastOp = "make") =>
        /\ Position.Rights =
                pre.position.Rights \ (RuleMask(Source(lastMove)) \cup RuleMask(Target(lastMove)))
        /\ Position.Rights \subseteq pre.position.Rights

\* C23 witness: a piece has captured an enemy rook on its start square and
\* the opponent held the right of that rook.
C23_Witness ==
    /\ Running
    /\ lastOp = "make"
    /\ Flag(lastMove) = Normal
    /\ pre.position.Mailbox[Target(lastMove)]
            = ColoredPiece(Rook, OtherColor(pre.position.SideToMove))
    /\ (pre.position.Rights \cap RuleMask(Target(lastMove))) \ Position.Rights # {}

\* The king of the color of the dimension is on the square it was loaded on
\* and a rook of that color is on the square of the rook of the dimension.
RuleUnmoved(position, d) ==
    /\ \A k \in RuleKings(history[1].Mailbox, d \div 2) :
            position.Mailbox[k] = ColoredPiece(King, d \div 2)
    /\ position.Mailbox[castlingInfo.rooks[d]] = ColoredPiece(Rook, d \div 2)

\* C24: if every castling right of the loaded position has its king and its
\* rook on their squares, then in every position reached by MakeMove a right
\* that is held has its king and its rook still there, and a castling move
\* is generated only for such a king and rook.
C24_RightsImplyUnmoved ==
    (Running /\ \A d \in history[1].Rights : RuleUnmoved(history[1], d)) =>
        /\ \A d \in Position.Rights : RuleUnmoved(Position, d)
        /\ \A m \in CastlesOf(GenerateMoves(TRUE, TRUE)) :
              LET d == Dimension(Position.SideToMove,
                                 IF Flag(m) = CastleHSide THEN SideH ELSE SideA)
              IN RuleUnmoved(Position, d)
                    /\ Source(m) \in RuleKings(history[1].Mailbox, Position.SideToMove)
                    /\ Target(m) = castlingInfo.rooks[d]

\* C24 witness: MakeMove of a king's move other than castling has ended the
\* rights of a color while the other color still holds one.
C24_Witness ==
    /\ Running
    /\ lastOp = "make"
    /\ Flag(lastMove) = Normal
    /\ pre.position.Mailbox[Source(lastMove)] = ColoredPiece(King, pre.position.SideToMove)
    /\ pre.position.Rights # Position.Rights
    /\ Position.Rights # {}

\* The position is the one before it after a double push of a pawn of the
\* side that moved over the square target.
RuleDoublePushed(before, after, target) ==
    LET mover == before.SideToMove
        up == IF mover = White THEN 8 ELSE -8
    IN /\ after.SideToMove = 1 - mover
       /\ target \div 8 = (IF mover = White THEN 2 ELSE 5)
       /\ before.Mailbox[target - up] = ColoredPiece(Pawn, mover)
       /\ after.Mailbox = [before.Mailbox EXCEPT ![target - up] = NoPiece,
                                                 ![target + up] = ColoredPiece(Pawn, mover)]

\* C25: after a MakeMove whose flag is not DoublePush EpTarget is None, and
\* an en passant capture onto a square is generated only in the position
\* that MakeMove made of the position before it by the double push over that
\* square (the loaded position has its target from the FEN).
C25_EpTargetOnePly ==
    /\ (Running /\ lastOp = "make" /\ Flag(lastMove) # DoublePush) =>
            Position.EpTarget = SquareNone
    /\ (Running /\ top > 0) =>
            \A m \in MovesOf(GenerateMoves(TRUE, TRUE)) :
                Flag(m) = EnPassant => RuleDoublePushed(history[top], Position, Target(m))

\* C25 witness: the position before offered an en passant capture, the move
\* made was neither that capture nor a double push, and no en passant
\* capture is generated any more.
C25_Witness ==
    /\ Running
    /\ lastOp = "make"
    /\ pre.position.EpTarget # SquareNone
    /\ \E m \in MovesOf(Generate(TRUE, TRUE, pre.position, castlingInfo)) : Flag(m) = EnPassant
    /\ Flag(lastMove) \notin {DoublePush, EnPassant}
    /\ \A m \in MovesOf(GenerateMoves(TRUE, TRUE)) : Flag(m) # EnPassant

\* C26: in every position made by MakeMove, an EpTarget that is not None is
\* on the third rank when Black is to move and on the sixth when White is,
\* the square is empty, and the square beyond it holds a pawn of the side
\* that has just moved.
C26_EpTargetBehindPawn ==
    (Running /\ top > 0 /\ Position.EpTarget # SquareNone) =>
        LET target == Position.EpTarget
            mover == 1 - Position.SideToMove
        IN /\ target \div 8 = (IF Position.SideToMove = Black THEN 2 ELSE 5)
           /\ Position.Mailbox[target] = NoPiece
           /\ Position.Mailbox[IF mover = White THEN target + 8 ELSE target - 8]
                    = ColoredPiece(Pawn, mover)

\* C26 witness: MakeMove of a double push has set the en passant target.
C26_Witness ==
    /\ Running
    /\ lastOp = "make"
    /\ Flag(lastMove) = DoublePush
    /\ Position.EpTarget # SquareNone

\* The move that made the position of the slot t of the position before it
\* was a pawn move or a capture: a pawn has left its square or a piece has
\* left the board.
RuleIrreversible(t) ==
    LET before == history[t].Mailbox
        after == history[t + 1].Mailbox
    IN \/ \E sq \in Squares : before[sq] # NoPiece /\ before[sq] % 6 = Pawn /\ after[sq] # before[sq]
       \/ Cardinality({sq \in Squares : after[sq] # NoPiece})
                < Cardinality({sq \in Squares : before[sq] # NoPiece})

\* The number of half-moves since the last pawn move or capture in the
\* position of the slot top, counted from the clock of the loaded position.
RuleHalfMoves ==
    LET resets == {t \in 1 .. top : RuleIrreversible(t)}
    IN IF resets = {} THEN history[1].DrawClock + top
       ELSE top - (CHOOSE t \in resets : \A u \in resets : u <= t)

\* C27: in every position reached by MakeMove of generated moves within the
\* position stack, the number of half-moves since the last pawn move or
\* capture is at most 255 and DrawClock is that number.
C27_DrawClockNeverWraps ==
    Running =>
        /\ RuleHalfMoves <= 255
        /\ Position.DrawClock = RuleHalfMoves

\* C28: while no bounds check has failed, UndoMove without a MakeMove to
\* undo included, top is within 0 .. MaxInGame - 1 and Position() reads a
\* slot of history.
C28_TopWithinHistory ==
    trip = "none" => top \in 0 .. (MaxInGame - 1)

\* A step of MakeMove leaves every Position up to the old top as it was and
\* moves top one slot up; a step of UndoMove that a MakeMove matches leaves
\* every Position up to the new top as it was and moves top one slot down;
\* both leave castlingInfo, initialPlys and frc as they were.
C29_Frame ==
    /\ castlingInfo' = castlingInfo
    /\ initialPlys' = initialPlys
    /\ frc' = frc
    /\ lastOp' = "make" =>
            /\ top' = top + 1
            /\ \A i \in 1 .. (top + 1) : history'[i] = history[i]
    /\ (lastOp' \in {"undo", "make-undo"} /\ top > 0) =>
            /\ top' = top - 1
            /\ \A i \in 1 .. top : history'[i] = history[i]

\* C29: MakeMove writes only the new top slot of the position stack and the
\* top index, UndoMove only the top index, and neither writes castlingInfo,
\* initialPlys or frc; so the Position after MakeMove and UndoMove calls
\* that match, however deeply nested, is the Position before them.
C29_OnlyTopWritten == [][C29_Frame]_vars

\* C29 witness: two nested MakeMove calls have been undone by two UndoMove
\* calls and the Board is at the loaded position again.
C29_Witness ==
    /\ Running
    /\ lastOp = "undo"
    /\ top = 0
    /\ Len(history) = 1

\* C30: for every Board and every depth Perft returns; every MakeMove it
\* has made is matched by one UndoMove, the outstanding frames never exceed
\* those at entry plus max(depth, 0), and top and the current Position are
\* on return what they were at entry.
C30_PerftBalanced ==
    Running =>
        \A BULK_COUNT \in BOOLEAN : \A depth \in -1 .. PerftDepth :
            LET r == perft(BULK_COUNT, history, castlingInfo, top, depth)
            IN /\ r.trip = "none"
               /\ r.makes = r.undos
               /\ r.peak <= top + (IF depth > 0 THEN depth ELSE 0)
               /\ r.top = top
               /\ r.history[r.top + 1] = Position

====
